---- MODULE Spec2Model ----
(***************************************************************************)
(* Stat reconciliation of the league tracker UI: the create-game form      *)
(* (CreateGameComponent, decks.component.ts 308-896) applies per-seat      *)
(* statistic deltas to stored players and decks after a match is saved,    *)
(* and the match-history view (MatchHistoryComponent, match.service.ts     *)
(* 501-1116) rolls them back after a match is deleted.  The remote store   *)
(* is reached through PlayerService, DeckService and MatchService.         *)
(*                                                                         *)
(* Strings are sequences of one-character strings, so that toLowerCase,    *)
(* trim and includes are computed on the characters.  undefined/null is    *)
(* the one-element sequence Undefined for strings and NoId for numbers.    *)
(***************************************************************************)
EXTENDS Integers, Sequences, FiniteSets, TLC

VARIABLES
    storePlayers,      \* remote player collection (list-all order)
    storeDecks,        \* remote deck collection (list-all order)
    storeMatches,      \* remote match collection
    nextMatchId,       \* identity the store assigns to the next created match
    players,           \* CreateGameComponent.players
    decks,             \* CreateGameComponent.decks
    slots,             \* CreateGameComponent.slots
    gameFormat,        \* CreateGameComponent.gameFormat
    pendingAutoDeckBySlot, \* CreateGameComponent.pendingAutoDeckBySlot
    CG_matches,        \* CreateGameComponent.matches
    isSubmitting,      \* CreateGameComponent.isSubmitting
    submitErrorMessage,
    submitSuccessMessage,
    cg,                \* the create-game operation in flight (closure state)
    matches,           \* MatchHistoryComponent.matches
    deletingMatchKey,  \* MatchHistoryComponent.deletingMatchKey
    errorMessage,      \* MatchHistoryComponent.errorMessage
    del,               \* the delete operations started so far (closure state)
    net,               \* update calls sent and not yet answered by the store
    failures,          \* history: store calls that have failed so far
    playersComponent,  \* PlayersComponent: add-player form and its create calls
    decksComponent,    \* DecksComponent: add-deck form and its create calls
    calc               \* operands and results of the delta algebra

vars == << storePlayers, storeDecks, storeMatches, nextMatchId, players, decks,
           slots, gameFormat, pendingAutoDeckBySlot, CG_matches, isSubmitting, submitErrorMessage,
           submitSuccessMessage, cg, matches, deletingMatchKey, errorMessage,
           del, net, failures, playersComponent, decksComponent, calc >>

----------------------------------------------------------------------------
(* Strings *)

Undefined == << "undefined?" >>
NoId == -1
Null == << "null?" >>
NullRec == [null |-> TRUE]
NoSeats == << NullRec >>

UpperChars == << "A","B","C","D","E","F","G","H","I","J","K","L","M",
                 "N","O","P","Q","R","S","T","U","V","W","X","Y","Z" >>
LowerChars == << "a","b","c","d","e","f","g","h","i","j","k","l","m",
                 "n","o","p","q","r","s","t","u","v","w","x","y","z" >>

LowerChar(c) ==
    IF \E i \in DOMAIN UpperChars : UpperChars[i] = c
    THEN LowerChars[CHOOSE i \in DOMAIN UpperChars : UpperChars[i] = c]
    ELSE c

toLowerCase(s) == [i \in DOMAIN s |-> LowerChar(s[i])]

RECURSIVE trimStart(_)
trimStart(s) ==
    IF s # << >> /\ Head(s) = " " THEN trimStart(Tail(s)) ELSE s

RECURSIVE trimEnd(_)
trimEnd(s) ==
    IF s # << >> /\ s[Len(s)] = " " THEN trimEnd(SubSeq(s, 1, Len(s) - 1)) ELSE s

\* variant that strips nothing
trim_Nothing(s) == s

trim(s) == trimEnd(trimStart(s))

includes(s, sub) ==
    \E i \in 1..(Len(s) - Len(sub) + 1) : SubSeq(s, i, i + Len(sub) - 1) = sub

\* JavaScript truthiness of a string-or-undefined value
Truthy(s) == s # Undefined /\ s # Null /\ s # << >>

\* typeof value === 'string' && value.trim() !== ''
NonBlankString(s) == s # Undefined /\ s # Null /\ trim(s) # << >>

S_win == << "w","i","n" >>
S_loss == << "l","o","s","s" >>
S_tie == << "t","i","e" >>
S_WIN == << "W","I","N" >>
S_TIE == << "T","I","E" >>
S_Tie == << "T","i","e" >>
S_CEDH == << "C","E","D","H" >>
S_CASUAL == << "C","A","S","U","A","L" >>
S_casual == << "c","a","s","u","a","l" >>
S_Unknown == << "U","n","k","n","o","w","n" >>

Ann == << "A","n","n" >>
ann == << "a","n","n" >>
Bob == << "B","o","b" >>
Cy == << "C","y" >>
Dee == << "D","e","e" >>
Rona == << "R","o","n","a" >>
Kess == << "K","e","s","s" >>

----------------------------------------------------------------------------
(* StatDelta *)

ZeroDelta == [wins |-> 0, losses |-> 0, ties |-> 0, casualWins |-> 0, casualLosses |-> 0]

StatKeys == {"wins", "losses", "ties", "casualWins", "casualLosses"}

Max(a, b) == IF a >= b THEN a ELSE b

----------------------------------------------------------------------------
(* Map<K, V> with insertion order: a sequence of [key, value] entries *)

MapHas(m, k) == \E i \in DOMAIN m : m[i].key = k

MapGet(m, k) == m[CHOOSE i \in DOMAIN m : m[i].key = k].value

MapSet(m, k, v) ==
    IF MapHas(m, k)
    THEN [i \in DOMAIN m |-> IF m[i].key = k THEN [key |-> k, value |-> v] ELSE m[i]]
    ELSE Append(m, [key |-> k, value |-> v])

MapDelete(m, k) == SelectSeq(m, LAMBDA entry : entry.key # k)

\* Array.prototype.find / findIndex: the first element satisfying the test
FirstIndex(seq, Test(_)) ==
    IF \E i \in DOMAIN seq : Test(seq[i])
    THEN CHOOSE i \in DOMAIN seq : Test(seq[i]) /\ \A j \in 1..(i - 1) : ~Test(seq[j])
    ELSE 0

----------------------------------------------------------------------------
(* CreateGameComponent: pure helpers *)

NullIndex == -1
SlotCount == 4

DigitChars == << "0","1","2","3","4","5","6","7","8","9" >>

RECURSIVE NumberToString(_)
NumberToString(n) ==
    IF n < 10 THEN << DigitChars[n + 1] >>
    ELSE NumberToString(n \div 10) \o << DigitChars[(n % 10) + 1] >>

CG_getPlayerId(player) ==
    IF player = NullRec THEN NoId ELSE player.playerId

playerLabel(player, fallback) ==
    IF player.playerName # Undefined THEN player.playerName
    ELSE IF player.playerId # NoId THEN NumberToString(player.playerId)
    ELSE fallback

deckLabel(deck, fallback) ==
    IF deck.deckName # Undefined THEN deck.deckName ELSE fallback

CG_getDeckNameForUpdate(deck) ==
    IF Truthy(deck.deckName) THEN deck.deckName ELSE Null

duplicatePlayers ==
    LET selected == { i \in DOMAIN slots : slots[i].playerIndex # NullIndex }
    IN  Cardinality({ slots[i].playerIndex : i \in selected }) # Cardinality(selected)

isComplete ==
    \A i \in DOMAIN slots :
        /\ slots[i].playerIndex # NullIndex
        /\ slots[i].deckIndex # NullIndex
        /\ slots[i].result # << >>

canCreate == isComplete /\ ~duplicatePlayers

SlotPlayer(slot) ==
    IF slot.playerIndex # NullIndex THEN players[slot.playerIndex + 1] ELSE NullRec

SlotDeck(slot) ==
    IF slot.deckIndex # NullIndex THEN decks[slot.deckIndex + 1] ELSE NullRec

buildMatchPayload ==
    LET winnerIndex == FirstIndex(slots, LAMBDA slot : slot.result = S_win)
        tie == \A i \in DOMAIN slots : slots[i].result = S_tie
        primaryIndex == IF winnerIndex >= 1 THEN winnerIndex ELSE 1
        primarySlot == slots[primaryIndex]
        primaryPlayer == SlotPlayer(primarySlot)
        primaryDeck == SlotDeck(primarySlot)
        others == SelectSeq([i \in DOMAIN slots |-> i], LAMBDA i : i # primaryIndex)
        opponents == [k \in DOMAIN others |->
            [name |-> IF slots[others[k]].playerIndex # NullIndex
                      THEN playerLabel(SlotPlayer(slots[others[k]]), S_Unknown)
                      ELSE S_Unknown,
             deck |-> IF slots[others[k]].deckIndex # NullIndex
                      THEN deckLabel(SlotDeck(slots[others[k]]), S_Unknown)
                      ELSE S_Unknown]]
        oppName(k) == IF k \in DOMAIN opponents THEN opponents[k].name ELSE S_Unknown
        oppDeck(k) == IF k \in DOMAIN opponents THEN opponents[k].deck ELSE S_Unknown
    IN  [ matchID |-> NoId,
          playerID |-> CG_getPlayerId(primaryPlayer),
          deckName |-> IF primaryDeck # NullRec THEN deckLabel(primaryDeck, S_Unknown) ELSE S_Unknown,
          winnerName |-> IF tie THEN S_Tie
                         ELSE IF primaryPlayer # NullRec THEN playerLabel(primaryPlayer, S_Unknown)
                         ELSE S_Unknown,
          format |-> IF gameFormat = "cedh" THEN S_CEDH ELSE S_CASUAL,
          playerWin |-> (~tie /\ winnerIndex >= 1),
          opponentOne |-> oppName(1),
          opponentOneDeck |-> oppDeck(1),
          opponentTwo |-> oppName(2),
          opponentTwoDeck |-> oppDeck(2),
          opponentThree |-> oppName(3),
          opponentThreeDeck |-> oppDeck(3),
          result |-> IF tie THEN S_TIE ELSE S_WIN,
          seats |-> NoSeats ]

\* variant that fills the casual counters whatever the format
CG_buildDelta_AlwaysCasual(result, isCasual) ==
    IF result = S_tie THEN [ZeroDelta EXCEPT !.ties = 1]
    ELSE IF result = S_win THEN [ZeroDelta EXCEPT !.wins = 1, !.casualWins = 1]
    ELSE IF result = S_loss THEN [ZeroDelta EXCEPT !.losses = 1, !.casualLosses = 1]
    ELSE ZeroDelta

\* variant that books a tie as a loss as well
CG_buildDelta_TieAsLoss(result, isCasual) ==
    IF result = S_tie
    THEN [ZeroDelta EXCEPT !.ties = 1, !.losses = 1,
                           !.casualLosses = IF isCasual THEN 1 ELSE 0]
    ELSE IF result = S_win
         THEN [ZeroDelta EXCEPT !.wins = 1, !.casualWins = IF isCasual THEN 1 ELSE 0]
    ELSE IF result = S_loss
         THEN [ZeroDelta EXCEPT !.losses = 1, !.casualLosses = IF isCasual THEN 1 ELSE 0]
    ELSE ZeroDelta

CG_buildDelta(result, isCasual) ==
    IF result = S_tie THEN [ZeroDelta EXCEPT !.ties = 1]
    ELSE IF result = S_win
         THEN [ZeroDelta EXCEPT !.wins = 1, !.casualWins = IF isCasual THEN 1 ELSE 0]
    ELSE IF result = S_loss
         THEN [ZeroDelta EXCEPT !.losses = 1, !.casualLosses = IF isCasual THEN 1 ELSE 0]
    ELSE ZeroDelta

buildLossDelta(result, isCasual) ==
    IF result = S_loss
    THEN [ZeroDelta EXCEPT !.losses = 1, !.casualLosses = IF isCasual THEN 1 ELSE 0]
    ELSE ZeroDelta

CG_mergeDelta(base, add) ==
    [ wins |-> base.wins + add.wins,
      losses |-> base.losses + add.losses,
      ties |-> base.ties + add.ties,
      casualWins |-> base.casualWins + add.casualWins,
      casualLosses |-> base.casualLosses + add.casualLosses ]

CG_buildPlayerUpdatePayload(player, playerId, delta) ==
    [ playerId |-> playerId,
      playerName |-> IF player.playerName # Undefined THEN player.playerName ELSE S_Unknown,
      wins |-> player.wins + delta.wins,
      losses |-> player.losses + delta.losses,
      ties |-> player.ties + delta.ties,
      casualWins |-> player.casualWins + delta.casualWins,
      casualLosses |-> player.casualLosses + delta.casualLosses ]

CG_buildDeckUpdatePayload(deck, deckName, delta) ==
    [ deckName |-> deckName,
      playerID |-> IF deck.playerID # NoId THEN deck.playerID ELSE 0,
      wins |-> deck.wins + delta.wins,
      losses |-> deck.losses + delta.losses,
      ties |-> deck.ties + delta.ties,
      casualWins |-> deck.casualWins + delta.casualWins,
      casualLosses |-> deck.casualLosses + delta.casualLosses ]

\* The seat walk of updateStatsForMatch: the player delta map after slots 1..n
RECURSIVE CG_playerDeltaMap(_)
CG_playerDeltaMap(n) ==
    IF n = 0 THEN << >>
    ELSE LET prev == CG_playerDeltaMap(n - 1)
             slot == slots[n]
             delta == CG_buildDelta(slot.result, gameFormat = "casual")
             playerId == CG_getPlayerId(SlotPlayer(slot))
         IN  IF slot.playerIndex # NullIndex /\ playerId # NoId
             THEN MapSet(prev, playerId,
                         IF MapHas(prev, playerId)
                         THEN CG_mergeDelta(MapGet(prev, playerId), delta) ELSE delta)
             ELSE prev

\* The seat walk of updateStatsForMatch: the deck delta map after slots 1..n
RECURSIVE CG_deckDeltaMap(_)
CG_deckDeltaMap(n) ==
    IF n = 0 THEN << >>
    ELSE LET prev == CG_deckDeltaMap(n - 1)
             slot == slots[n]
             deckDelta == buildLossDelta(slot.result, gameFormat = "casual")
             deckName == IF slot.deckIndex # NullIndex
                         THEN CG_getDeckNameForUpdate(SlotDeck(slot)) ELSE Null
         IN  IF slot.deckIndex # NullIndex /\ Truthy(deckName)
             THEN MapSet(prev, deckName,
                         IF MapHas(prev, deckName)
                         THEN CG_mergeDelta(MapGet(prev, deckName), deckDelta) ELSE deckDelta)
             ELSE prev

\* The update calls built inside switchMap from the fetched snapshot; an
\* entry whose entity is absent from the snapshot yields of(null): no call.
CG_playerRequests(playerDeltaMap, snapPlayers) ==
    LET req(e) ==
          LET idx == FirstIndex(snapPlayers, LAMBDA item : CG_getPlayerId(item) = e.key)
          IN  IF idx = 0 THEN [kind |-> "none"]
              ELSE [kind |-> "player", playerId |-> e.key, target |-> idx,
                    payload |-> CG_buildPlayerUpdatePayload(snapPlayers[idx], e.key, e.value),
                    delta |-> e.value]
    IN  [i \in DOMAIN playerDeltaMap |-> req(playerDeltaMap[i])]

CG_deckRequests(deckDeltaMap, snapDecks) ==
    LET req(e) ==
          LET idx == FirstIndex(snapDecks, LAMBDA item :
                        LET candidate == CG_getDeckNameForUpdate(item)
                        IN  IF Truthy(candidate)
                            THEN toLowerCase(candidate) = toLowerCase(e.key) ELSE FALSE)
          IN  IF idx = 0 THEN [kind |-> "none"]
              ELSE [kind |-> "deck", deckName |-> e.key, target |-> idx,
                    payload |-> CG_buildDeckUpdatePayload(snapDecks[idx], e.key, e.value),
                    delta |-> e.value]
    IN  [i \in DOMAIN deckDeltaMap |-> req(deckDeltaMap[i])]

----------------------------------------------------------------------------
(* MatchHistoryComponent: pure helpers *)

getMatchKeyString(match) ==
    IF match.matchID # NoId THEN NumberToString(match.matchID) ELSE << >>

\* variant that tests for 'win' before 'tie'
normalizeResult_WinFirst(value) ==
    IF ~Truthy(value) THEN Null
    ELSE LET normalized == toLowerCase(value)
         IN  IF includes(normalized, S_win) THEN S_win
             ELSE IF includes(normalized, S_tie) THEN S_tie
             ELSE IF includes(normalized, S_loss) THEN S_loss
             ELSE Null

normalizeResult(value) ==
    IF ~Truthy(value) THEN Null
    ELSE LET normalized == toLowerCase(value)
         IN  IF includes(normalized, S_tie) THEN S_tie
             ELSE IF includes(normalized, S_win) THEN S_win
             ELSE IF includes(normalized, S_loss) THEN S_loss
             ELSE Null

\* variant that never compares the opponent with the winner's name
resolveOpponentResult_IgnoresWinner(opponentName, match) ==
    LET matchResult == normalizeResult(match.result)
    IN  IF matchResult = S_tie THEN S_tie
        ELSE IF matchResult = S_win \/ matchResult = S_loss THEN S_loss
        ELSE Null

resolveOpponentResult(opponentName, match) ==
    LET matchResult == normalizeResult(match.result)
    IN  IF matchResult = S_tie THEN S_tie
        ELSE IF Truthy(match.winnerName)
                /\ toLowerCase(trim(opponentName)) = toLowerCase(trim(match.winnerName))
             THEN S_win
        ELSE IF matchResult = S_win \/ matchResult = S_loss THEN S_loss
        ELSE Null

Seat(playerID, playerName, deckName, result, format) ==
    [ playerID |-> playerID, playerName |-> playerName, deckName |-> deckName,
      result |-> result, format |-> format, tie |-> "undefined", playerWin |-> "undefined" ]

getMatchSeats(match) ==
    IF match.seats # NoSeats THEN match.seats
    ELSE
      LET normalizedResult == normalizeResult(match.result)
          primary ==
            IF (match.playerID # NoId /\ match.playerID # 0)
               \/ Truthy(match.deckName) \/ Truthy(match.winnerName)
            THEN << Seat(match.playerID, match.winnerName, match.deckName,
                         IF normalizedResult # Null THEN normalizedResult
                         ELSE IF match.playerWin THEN S_win ELSE S_loss,
                         match.format) >>
            ELSE << >>
          opponent(name, deck) ==
            IF Truthy(name)
            THEN << Seat(NoId, name, deck, resolveOpponentResult(name, match), match.format) >>
            ELSE << >>
      IN  primary
          \o opponent(match.opponentOne, match.opponentOneDeck)
          \o opponent(match.opponentTwo, match.opponentTwoDeck)
          \o opponent(match.opponentThree, match.opponentThreeDeck)

getSeatPlayerId(seat) == seat.playerID

getSeatDeckName(seat) ==
    IF Truthy(seat.deckName) THEN seat.deckName ELSE Null

readSeatField(value) ==
    IF NonBlankString(value) THEN value ELSE Undefined

getSeatPlayerName(seat) ==
    LET candidate == readSeatField(seat.playerName)
    IN  IF Truthy(candidate) THEN candidate ELSE Null

\* a boolean, or the strings 'true' / 'false'; anything else is undefined
readSeatBool(value) ==
    IF value \in {"true", "false"} THEN value ELSE "undefined"

resolveSeatResult_MatchTieFirst(seat, match) ==
    LET direct == normalizeResult(readSeatField(seat.result))
        tieFlag == readSeatBool(seat.tie)
        winFlag == readSeatBool(seat.playerWin)
        matchResult == normalizeResult(match.result)
        seatPlayerId == getSeatPlayerId(seat)
        seatName == readSeatField(seat.playerName)
    IN  IF direct # Null THEN direct
        ELSE IF tieFlag = "true" THEN S_tie
        ELSE IF matchResult = S_tie THEN S_tie
        ELSE IF winFlag # "undefined" THEN (IF winFlag = "true" THEN S_win ELSE S_loss)
        ELSE IF seatPlayerId # NoId /\ match.playerID # NoId /\ seatPlayerId = match.playerID
             THEN (IF match.playerWin THEN S_win ELSE S_loss)
        ELSE IF Truthy(seatName) /\ Truthy(match.winnerName)
                /\ toLowerCase(trim(seatName)) = toLowerCase(trim(match.winnerName))
             THEN S_win
        ELSE IF Truthy(seatName) /\ Truthy(match.winnerName) /\ matchResult = S_win
             THEN S_loss
        ELSE Null

resolveSeatResult(seat, match) ==
    LET direct == normalizeResult(readSeatField(seat.result))
        tieFlag == readSeatBool(seat.tie)
        winFlag == readSeatBool(seat.playerWin)
        matchResult == normalizeResult(match.result)
        seatPlayerId == getSeatPlayerId(seat)
        seatName == readSeatField(seat.playerName)
    IN  IF direct # Null THEN direct
        ELSE IF tieFlag = "true" THEN S_tie
        ELSE IF winFlag # "undefined" THEN (IF winFlag = "true" THEN S_win ELSE S_loss)
        ELSE IF matchResult = S_tie THEN S_tie
        ELSE IF seatPlayerId # NoId /\ match.playerID # NoId /\ seatPlayerId = match.playerID
             THEN (IF match.playerWin THEN S_win ELSE S_loss)
        ELSE IF Truthy(seatName) /\ Truthy(match.winnerName)
                /\ toLowerCase(trim(seatName)) = toLowerCase(trim(match.winnerName))
             THEN S_win
        ELSE IF Truthy(seatName) /\ Truthy(match.winnerName) /\ matchResult = S_win
             THEN S_loss
        ELSE Null

isCasualFormat(value) ==
    IF ~Truthy(value) THEN FALSE ELSE includes(toLowerCase(value), S_casual)

MH_buildDelta(result, isCasual) ==
    IF result = S_tie THEN [ZeroDelta EXCEPT !.ties = 1]
    ELSE IF result = S_win
         THEN [ZeroDelta EXCEPT !.wins = 1, !.casualWins = IF isCasual THEN 1 ELSE 0]
    ELSE IF result = S_loss
         THEN [ZeroDelta EXCEPT !.losses = 1, !.casualLosses = IF isCasual THEN 1 ELSE 0]
    ELSE ZeroDelta

\* variant that leaves the ties component as it is
invertDelta_KeepTies(delta) ==
    [ wins |-> -delta.wins,
      losses |-> -delta.losses,
      ties |-> delta.ties,
      casualWins |-> -delta.casualWins,
      casualLosses |-> -delta.casualLosses ]

invertDelta(delta) ==
    [ wins |-> -delta.wins,
      losses |-> -delta.losses,
      ties |-> -delta.ties,
      casualWins |-> -delta.casualWins,
      casualLosses |-> -delta.casualLosses ]

\* variant that adds the wins of the second operand only
MH_mergeDelta_WinsOnly(base, add) ==
    [base EXCEPT !.wins = base.wins + add.wins]

MH_mergeDelta(base, add) ==
    [ wins |-> base.wins + add.wins,
      losses |-> base.losses + add.losses,
      ties |-> base.ties + add.ties,
      casualWins |-> base.casualWins + add.casualWins,
      casualLosses |-> base.casualLosses + add.casualLosses ]

\* variant that reads a missing id as 0
MH_getPlayerId_Zero(player) == IF player.playerId = NoId THEN 0 ELSE player.playerId

MH_getPlayerId(player) == player.playerId

findPlayerById(playerList, playerId) ==
    FirstIndex(playerList, LAMBDA player : MH_getPlayerId(player) = playerId)

\* variant that compares the names as they are spelled
findPlayerByName_CaseSensitive(playerList, playerName) ==
    FirstIndex(playerList, LAMBDA player :
        IF Truthy(player.playerName) THEN player.playerName = playerName ELSE FALSE)

findPlayerByName(playerList, playerName) ==
    LET normalized == toLowerCase(playerName)
    IN  FirstIndex(playerList, LAMBDA player :
            IF Truthy(player.playerName)
            THEN toLowerCase(player.playerName) = normalized ELSE FALSE)

MH_getDeckNameForUpdate(deck) ==
    IF Truthy(deck.deckName) THEN deck.deckName ELSE Null

findDeckByName(deckList, deckName) ==
    LET normalized == toLowerCase(deckName)
    IN  FirstIndex(deckList, LAMBDA deck :
            LET candidate == MH_getDeckNameForUpdate(deck)
            IN  IF Truthy(candidate) THEN toLowerCase(candidate) = normalized ELSE FALSE)

\* variant without the clamp at zero
MH_buildPlayerUpdatePayload_Unclamped(player, playerId, delta) ==
    [ playerId |-> playerId,
      playerName |-> IF player.playerName # Undefined THEN player.playerName ELSE S_Unknown,
      wins |-> player.wins + delta.wins,
      losses |-> player.losses + delta.losses,
      ties |-> player.ties + delta.ties,
      casualWins |-> player.casualWins + delta.casualWins,
      casualLosses |-> player.casualLosses + delta.casualLosses ]

MH_buildPlayerUpdatePayload(player, playerId, delta) ==
    [ playerId |-> playerId,
      playerName |-> IF player.playerName # Undefined THEN player.playerName ELSE S_Unknown,
      wins |-> Max(0, player.wins + delta.wins),
      losses |-> Max(0, player.losses + delta.losses),
      ties |-> Max(0, player.ties + delta.ties),
      casualWins |-> Max(0, player.casualWins + delta.casualWins),
      casualLosses |-> Max(0, player.casualLosses + delta.casualLosses) ]

\* variant without the clamp at zero
MH_buildDeckUpdatePayload_Unclamped(deck, deckName, delta) ==
    [ deckName |-> deckName,
      playerID |-> IF deck.playerID # NoId THEN deck.playerID ELSE 0,
      wins |-> deck.wins + delta.wins,
      losses |-> deck.losses + delta.losses,
      ties |-> deck.ties + delta.ties,
      casualWins |-> deck.casualWins + delta.casualWins,
      casualLosses |-> deck.casualLosses + delta.casualLosses ]

MH_buildDeckUpdatePayload(deck, deckName, delta) ==
    [ deckName |-> deckName,
      playerID |-> IF deck.playerID # NoId THEN deck.playerID ELSE 0,
      wins |-> Max(0, deck.wins + delta.wins),
      losses |-> Max(0, deck.losses + delta.losses),
      ties |-> Max(0, deck.ties + delta.ties),
      casualWins |-> Max(0, deck.casualWins + delta.casualWins),
      casualLosses |-> Max(0, deck.casualLosses + delta.casualLosses) ]

\* The seat walk of rollbackStats over seats 1..n: the three delta maps
\* variant without the early return for a seat that has no result: the seat
\* is entered with a zero delta
RECURSIVE MH_deltaMaps_CountsUnresolved(_, _, _)
MH_deltaMaps_CountsUnresolved(seats, match, n) ==
    IF n = 0 THEN [playerMap |-> << >>, nameMap |-> << >>, deckMap |-> << >>]
    ELSE
      LET prev == MH_deltaMaps_CountsUnresolved(seats, match, n - 1)
          seat == seats[n]
          result == resolveSeatResult(seat, match)
          format == IF readSeatField(seat.format) # Undefined
                    THEN readSeatField(seat.format) ELSE match.format
          isCasual == isCasualFormat(format)
          delta == IF result = Null THEN ZeroDelta
                   ELSE invertDelta(MH_buildDelta(result, isCasual))
          playerId == getSeatPlayerId(seat)
          playerName == getSeatPlayerName(seat)
          deckName == getSeatDeckName(seat)
          put(m, k) == MapSet(m, k, IF MapHas(m, k) THEN MH_mergeDelta(MapGet(m, k), delta)
                                    ELSE delta)
      IN  [ playerMap |-> IF playerId # NoId THEN put(prev.playerMap, playerId)
                          ELSE prev.playerMap,
            nameMap |-> IF playerId = NoId /\ Truthy(playerName)
                        THEN put(prev.nameMap, toLowerCase(playerName))
                        ELSE prev.nameMap,
            deckMap |-> IF Truthy(deckName) THEN put(prev.deckMap, deckName)
                        ELSE prev.deckMap ]

RECURSIVE MH_deltaMaps(_, _, _)
MH_deltaMaps(seats, match, n) ==
    IF n = 0 THEN [playerMap |-> << >>, nameMap |-> << >>, deckMap |-> << >>]
    ELSE
      LET prev == MH_deltaMaps(seats, match, n - 1)
          seat == seats[n]
          result == resolveSeatResult(seat, match)
          format == IF readSeatField(seat.format) # Undefined
                    THEN readSeatField(seat.format) ELSE match.format
          isCasual == isCasualFormat(format)
          delta == invertDelta(MH_buildDelta(result, isCasual))
          playerId == getSeatPlayerId(seat)
          playerName == getSeatPlayerName(seat)
          deckName == getSeatDeckName(seat)
          put(m, k) == MapSet(m, k, IF MapHas(m, k) THEN MH_mergeDelta(MapGet(m, k), delta)
                                    ELSE delta)
      IN  IF result = Null THEN prev
          ELSE [ playerMap |-> IF playerId # NoId THEN put(prev.playerMap, playerId)
                               ELSE prev.playerMap,
                 nameMap |-> IF playerId = NoId /\ Truthy(playerName)
                             THEN put(prev.nameMap, toLowerCase(playerName))
                             ELSE prev.nameMap,
                 deckMap |-> IF Truthy(deckName) THEN put(prev.deckMap, deckName)
                             ELSE prev.deckMap ]

MH_playerRequests(playerMap, snapPlayers) ==
    LET req(e) ==
          LET idx == findPlayerById(snapPlayers, e.key)
          IN  IF idx = 0 THEN [kind |-> "none"]
              ELSE [kind |-> "player", via |-> "id",
                    playerId |-> e.key, target |-> idx,
                    payload |-> MH_buildPlayerUpdatePayload(snapPlayers[idx], e.key, e.value),
                    delta |-> e.value]
    IN  [i \in DOMAIN playerMap |-> req(playerMap[i])]

MH_nameRequests(nameMap, snapPlayers) ==
    LET req(e) ==
          LET idx == findPlayerByName(snapPlayers, e.key)
          IN  IF idx = 0 THEN [kind |-> "none"]
              ELSE IF MH_getPlayerId(snapPlayers[idx]) = NoId THEN [kind |-> "none"]
              ELSE [kind |-> "player", via |-> "name", key |-> e.key,
                    playerId |-> MH_getPlayerId(snapPlayers[idx]), target |-> idx,
                    payload |-> MH_buildPlayerUpdatePayload(
                                    snapPlayers[idx], MH_getPlayerId(snapPlayers[idx]), e.value),
                    delta |-> e.value]
    IN  [i \in DOMAIN nameMap |-> req(nameMap[i])]

MH_deckRequests(deckMap, snapDecks) ==
    LET req(e) ==
          LET idx == findDeckByName(snapDecks, e.key)
          IN  IF idx = 0 THEN [kind |-> "none"]
              ELSE [kind |-> "deck", via |-> "deck",
                    deckName |-> e.key, target |-> idx,
                    payload |-> MH_buildDeckUpdatePayload(snapDecks[idx], e.key, e.value),
                    delta |-> e.value]
    IN  [i \in DOMAIN deckMap |-> req(deckMap[i])]

----------------------------------------------------------------------------
(* Bounds of the model *)

MaxMatches == 1      \* matches created in one behaviour
MaxDeletes == 1      \* delete operations started in one behaviour
MaxStart == 1        \* largest counter value in the initial store
MaxFailures == 1     \* store calls that fail in one behaviour
MaxRetries == 1      \* deletes started again after a failed delete
MaxOverlap == 1      \* deletes started while another delete is under way

----------------------------------------------------------------------------
(* PlayersComponent and DecksComponent after construction; the delta       *)
(* algebra at rest                                                         *)

EmptyString == << >>

IdlePlayersComponent ==
    [ players |-> << >>, newPlayerName |-> EmptyString, isCreatingPlayer |-> FALSE,
      createPlayerErrorMessage |-> "null", createPlayerSuccessMessage |-> "null",
      showAddForm |-> FALSE, calls |-> << >>, routed |-> FALSE ]

IdleDecksComponent ==
    [ decks |-> << >>, newDeckName |-> EmptyString, isCreatingDeck |-> FALSE,
      createDeckErrorMessage |-> "null", createDeckSuccessMessage |-> "null",
      showAddForm |-> FALSE, calls |-> << >>, routed |-> FALSE ]

IdleCalc == [a |-> ZeroDelta, b |-> ZeroDelta, c |-> ZeroDelta, merges |-> 0]

manageVars == << playersComponent, decksComponent >>

----------------------------------------------------------------------------
(* The remote store and the state after construction *)

Counters(n) == [wins |-> n, losses |-> n, ties |-> n, casualWins |-> n, casualLosses |-> n]

StoredPlayer(id, name, n) ==
    [playerId |-> id, playerName |-> name] @@ Counters(n)

StoredDeck(name, owner, n) ==
    [deckName |-> name, playerID |-> owner] @@ Counters(n)

PlayerView(p) == [playerId |-> p.playerId, playerName |-> p.playerName]

DeckView(d) == [deckName |-> d.deckName]

\* the player rosters the store may hold: distinct names, or two players
\* whose display names differ only in letter case
RosterDistinct == << <<1, Ann>>, <<2, Bob>>, <<3, Cy>>, <<4, Dee>> >>
RosterSameName == << <<1, Ann>>, <<2, ann>>, <<3, Cy>>, <<4, Dee>> >>

\* result vectors the form reaches through updateResult with every slot set
ResultChoices ==
    { << S_win, S_loss, S_loss, S_loss >>,
      << S_loss, S_win, S_loss, S_loss >>,
      << S_tie, S_tie, S_tie, S_tie >>,
      << S_loss, S_loss, S_loss, S_loss >>,
      << S_tie, S_loss, S_tie, S_tie >> }

\* the deck chosen in each slot of the form (index into decks)
DeckChoice == << 0, 1, 1, 1 >>

Scenarios ==
    [ roster : {RosterDistinct}, results : ResultChoices,
      format : {"cedh", "casual"}, start : 0..MaxStart ]
    \cup
    [ roster : {RosterSameName},
      results : { << S_win, S_loss, S_loss, S_loss >>, << S_loss, S_win, S_loss, S_loss >> },
      format : {"cedh"}, start : {MaxStart} ]

buildEmptySlots ==
    [i \in 1..SlotCount |-> [playerIndex |-> NullIndex, deckIndex |-> NullIndex, result |-> << >>]]

IdleCreate ==
    [ phase |-> "idle", id |-> 0, payload |-> NullRec, matchID |-> NoId,
      slots |-> << >>, isCasual |-> FALSE, players |-> << >>, decks |-> << >>,
      playerDeltaMap |-> << >>, deckDeltaMap |-> << >>,
      hasPlayers |-> FALSE, snapPlayers |-> << >>,
      hasDecks |-> FALSE, snapDecks |-> << >>,
      requests |-> << >>, pending |-> {} ]

\* the components after construction and their initial loads, the form filled in
InitGame(sc) ==
    /\ storePlayers = [i \in DOMAIN sc.roster |->
                          StoredPlayer(sc.roster[i][1], sc.roster[i][2], sc.start)]
    /\ storeDecks = << StoredDeck(Rona, 1, sc.start), StoredDeck(Kess, 2, sc.start) >>
    /\ storeMatches = << >>
    /\ nextMatchId = 1
    /\ players = [i \in DOMAIN storePlayers |-> PlayerView(storePlayers[i])]
    /\ decks = [i \in DOMAIN storeDecks |-> DeckView(storeDecks[i])]
    /\ slots = [i \in 1..SlotCount |->
                  [playerIndex |-> i - 1, deckIndex |-> DeckChoice[i], result |-> sc.results[i]]]
    /\ gameFormat = sc.format
    /\ pendingAutoDeckBySlot = << >>
    /\ CG_matches = << >>
    /\ isSubmitting = FALSE
    /\ submitErrorMessage = "null"
    /\ submitSuccessMessage = "null"
    /\ cg = IdleCreate
    /\ matches = << >>
    /\ deletingMatchKey = Null
    /\ errorMessage = "null"
    /\ del = << >>
    /\ net = {}
    /\ failures = 0

InitWith(sc) ==
    /\ InitGame(sc)
    /\ playersComponent = IdlePlayersComponent
    /\ decksComponent = IdleDecksComponent
    /\ calc = IdleCalc

Init == \E sc \in Scenarios : InitWith(sc)

formVars == << slots, gameFormat, pendingAutoDeckBySlot, CG_matches >>
slotVars == << slots, pendingAutoDeckBySlot >>
storeVars == << storePlayers, storeDecks, storeMatches, nextMatchId >>
createVars == << players, decks, isSubmitting, submitErrorMessage, submitSuccessMessage, cg >>
historyVars == << matches, deletingMatchKey, errorMessage, del >>

CanFail == failures < MaxFailures

----------------------------------------------------------------------------
(* CreateGameComponent: the form *)

ResultValues == { << >>, S_win, S_loss, S_tie }

applyResultToAll(result) ==
    [i \in DOMAIN slots |-> [slots[i] EXCEPT !.result = result]]

\* variant that writes the winner's slot only
applyWinLoss_OnlyWinner(winnerIndex) ==
    [slots EXCEPT ![winnerIndex].result = S_win]

applyWinLoss(winnerIndex) ==
    [i \in DOMAIN slots |->
        [slots[i] EXCEPT !.result = IF i = winnerIndex THEN S_win ELSE S_loss]]

updateResult(slotIndex, value) ==
    /\ UNCHANGED failures
    /\ slots' = IF value = S_tie THEN applyResultToAll(S_tie)
                ELSE IF value = S_win THEN applyWinLoss(slotIndex)
                ELSE [slots EXCEPT ![slotIndex].result = value]
    /\ UNCHANGED << gameFormat, pendingAutoDeckBySlot, CG_matches, storeVars, createVars,
                    historyVars, net, manageVars, calc >>

setGameFormat(value) ==
    /\ UNCHANGED failures
    /\ gameFormat' = value
    /\ UNCHANGED << slots, pendingAutoDeckBySlot, CG_matches, storeVars, createVars,
                    historyVars, net, manageVars, calc >>

----------------------------------------------------------------------------
(* CreateGameComponent: the favorite decks (favoriteDeckMaps) and the      *)
(* automatic choice of a slot's deck                                       *)

\* variant that keeps the characters other than letters and digits
normalizeDeckKey_KeepsPunctuation(value) == toLowerCase(trim(value))

\* value.trim().toLowerCase().replace(/[^a-z0-9]+/g, '')
normalizeDeckKey(value) ==
    SelectSeq(toLowerCase(trim(value)),
              LAMBDA c : \/ \E i \in DOMAIN LowerChars : LowerChars[i] = c
                         \/ \E i \in DOMAIN DigitChars : DigitChars[i] = c)

\* deckMap.set(deckKey, (deckMap.get(deckKey) ?? 0) + 1); counts.set(key, deckMap)
bumpCount(counts, key, deckKey) ==
    LET deckMap == IF MapHas(counts, key) THEN MapGet(counts, key) ELSE << >>
        count == IF MapHas(deckMap, deckKey) THEN MapGet(deckMap, deckKey) ELSE 0
    IN  MapSet(counts, key, MapSet(deckMap, deckKey, count + 1))

bumpName(countsByName, playerName, deckName) ==
    IF ~Truthy(playerName) \/ ~Truthy(deckName) THEN countsByName
    ELSE LET nameKey == toLowerCase(trim(playerName))
             deckKey == normalizeDeckKey(deckName)
         IN  IF nameKey = << >> \/ deckKey = << >> THEN countsByName
             ELSE bumpCount(countsByName, nameKey, deckKey)

bumpId(countsById, playerId, deckName) ==
    IF playerId = NoId \/ ~Truthy(deckName) THEN countsById
    ELSE LET deckKey == normalizeDeckKey(deckName)
         IN  IF deckKey = << >> THEN countsById
             ELSE bumpCount(countsById, playerId, deckKey)

\* variant that takes the last of the decks with the highest count
RECURSIVE pickBestDeck_LastMax(_, _)
pickBestDeck_LastMax(deckMap, n) ==
    IF n = 0 THEN [bestDeck |-> << >>, bestCount |-> -1]
    ELSE LET best == pickBestDeck_LastMax(deckMap, n - 1)
         IN  IF deckMap[n].value >= best.bestCount
             THEN [bestDeck |-> deckMap[n].key, bestCount |-> deckMap[n].value]
             ELSE best

\* deckMap.forEach((count, deckName) => { if (count > bestCount) ... })
RECURSIVE pickBestDeck(_, _)
pickBestDeck(deckMap, n) ==
    IF n = 0 THEN [bestDeck |-> << >>, bestCount |-> -1]
    ELSE LET best == pickBestDeck(deckMap, n - 1)
         IN  IF deckMap[n].value > best.bestCount
             THEN [bestDeck |-> deckMap[n].key, bestCount |-> deckMap[n].value]
             ELSE best

RECURSIVE favoritesOf(_, _)
favoritesOf(counts, n) ==
    IF n = 0 THEN << >>
    ELSE LET bestDeck == pickBestDeck(counts[n].value, Len(counts[n].value)).bestDeck
             prev == favoritesOf(counts, n - 1)
         IN  IF bestDeck # << >> THEN MapSet(prev, counts[n].key, bestDeck) ELSE prev

RECURSIVE CG_countsById(_, _)
CG_countsById(history, n) ==
    IF n = 0 THEN << >>
    ELSE bumpId(CG_countsById(history, n - 1), history[n].playerID, history[n].deckName)

RECURSIVE CG_countsByName(_, _)
CG_countsByName(history, n) ==
    IF n = 0 THEN << >>
    ELSE LET match == history[n]
             c0 == CG_countsByName(history, n - 1)
             \* if (!match.playerID): undefined or 0
             c1 == IF match.playerID = NoId \/ match.playerID = 0
                   THEN bumpName(c0, match.winnerName, match.deckName) ELSE c0
             c2 == bumpName(c1, match.opponentOne, match.opponentOneDeck)
             c3 == bumpName(c2, match.opponentTwo, match.opponentTwoDeck)
         IN  bumpName(c3, match.opponentThree, match.opponentThreeDeck)

buildFavoriteDeckMaps(history) ==
    LET countsById == CG_countsById(history, Len(history))
        countsByName == CG_countsByName(history, Len(history))
    IN  [ byId |-> favoritesOf(countsById, Len(countsById)),
          byName |-> favoritesOf(countsByName, Len(countsByName)) ]

\* favoriteDeckMaps().byId.get(playerId) ?? favoriteDeckMaps().byName.get(name)
favoriteDeckNameOf(player, maps) ==
    LET playerId == CG_getPlayerId(player)
        playerName == playerLabel(player, << >>)
        byId == IF playerId # NoId /\ MapHas(maps.byId, playerId)
                THEN MapGet(maps.byId, playerId) ELSE Undefined
    IN  IF byId # Undefined THEN byId
        ELSE IF Truthy(playerName) /\ MapHas(maps.byName, toLowerCase(playerName))
        THEN MapGet(maps.byName, toLowerCase(playerName))
        ELSE Undefined

\* slots are numbered from 1 here; a slot whose player is not in the list makes
\* playerLabel throw before anything is set
applyAutoDeckForSlot(form, slotIndex, playerList, deckList, maps) ==
    LET slot == form.slots[slotIndex]
    IN  IF slot.playerIndex = NullIndex \/ slot.playerIndex + 1 \notin DOMAIN playerList
        THEN form
        ELSE LET favoriteDeckName == favoriteDeckNameOf(playerList[slot.playerIndex + 1], maps)
                 favoriteKey == normalizeDeckKey(favoriteDeckName)
                 deckIndex == FirstIndex(deckList, LAMBDA deck :
                                  normalizeDeckKey(deckLabel(deck, << >>)) = favoriteKey)
             IN  IF ~Truthy(favoriteDeckName) THEN form
                 ELSE IF deckIndex >= 1
                 THEN [ slots |-> [form.slots EXCEPT ![slotIndex].deckIndex = deckIndex - 1],
                        pending |-> MapDelete(form.pending, slotIndex) ]
                 ELSE [ slots |-> form.slots,
                        pending |-> MapSet(form.pending, slotIndex, favoriteDeckName) ]

\* pendingAutoDeckBySlot().forEach over the entries the map held at the call
RECURSIVE applyPendingEntries(_, _, _, _, _, _)
applyPendingEntries(form, entries, n, playerList, deckList, maps) ==
    IF n = 0 THEN form
    ELSE applyAutoDeckForSlot(
             applyPendingEntries(form, entries, n - 1, playerList, deckList, maps),
             entries[n].key, playerList, deckList, maps)

applyPendingAutoDecks(form, playerList, deckList, history) ==
    IF Len(form.pending) = 0 THEN form
    ELSE applyPendingEntries(form, form.pending, Len(form.pending), playerList, deckList,
                             buildFavoriteDeckMaps(history))

\* loadPlayers() and loadDecks() of the success callback complete, in either
\* order, each with applyPendingAutoDecks
reloadAutoDecks(loadedPlayers, loadedDecks) ==
    LET form == [slots |-> slots, pending |-> pendingAutoDeckBySlot]
    IN  { applyPendingAutoDecks(
              applyPendingAutoDecks(form, loadedPlayers, decks, CG_matches),
              loadedPlayers, loadedDecks, CG_matches),
          applyPendingAutoDecks(
              applyPendingAutoDecks(form, players, loadedDecks, CG_matches),
              loadedPlayers, loadedDecks, CG_matches) }

\* updatePlayer(slotIndex, value): the select's value is '' or a player index
updatePlayer(slotIndex, playerIndex) ==
    /\ UNCHANGED failures
    /\ LET form == [ slots |-> [slots EXCEPT ![slotIndex].playerIndex = playerIndex],
                     pending |-> pendingAutoDeckBySlot ]
           auto == IF playerIndex = NullIndex THEN form
                   ELSE applyAutoDeckForSlot(form, slotIndex, players, decks,
                                             buildFavoriteDeckMaps(CG_matches))
       IN  /\ slots' = auto.slots
           /\ pendingAutoDeckBySlot' = auto.pending
    /\ UNCHANGED << gameFormat, CG_matches, storeVars, createVars, historyVars, net >>

\* updateDeck(slotIndex, value): only the slot is written
updateDeck(slotIndex, deckIndex) ==
    /\ UNCHANGED failures
    /\ slots' = [slots EXCEPT ![slotIndex].deckIndex = deckIndex]
    /\ UNCHANGED << pendingAutoDeckBySlot, gameFormat, CG_matches, storeVars, createVars,
                    historyVars, net >>

\* loadMatches' next-callback: matches.set(data); applyPendingAutoDecks()
CG_loadMatchesNext ==
    /\ UNCHANGED failures
    /\ CG_matches' = storeMatches
    /\ LET auto == applyPendingAutoDecks([slots |-> slots, pending |-> pendingAutoDeckBySlot],
                                         players, decks, storeMatches)
       IN  /\ slots' = auto.slots
           /\ pendingAutoDeckBySlot' = auto.pending
    /\ UNCHANGED << gameFormat, storeVars, createVars, historyVars, net >>

\* loadMatches' error-callback: matches.set([])
CG_loadMatchesError ==
    /\ CanFail
    /\ failures' = failures + 1
    /\ CG_matches' = << >>
    /\ UNCHANGED << slotVars, gameFormat, storeVars, createVars, historyVars, net >>

----------------------------------------------------------------------------
(* CreateGameComponent: createGame and the apply pass *)

MsgSaved == "Game saved and stats updated."
MsgStatsFailed == "Match saved, but failed to update stats."
MsgSaveFailed == "Failed to save match. Check the API."

\* variant without the guard on isSubmitting and canCreate
createGame_Unguarded ==
    /\ UNCHANGED failures
    /\ nextMatchId <= MaxMatches
    /\ submitErrorMessage' = "null"
    /\ submitSuccessMessage' = "null"
    /\ isSubmitting' = TRUE
    /\ cg' = [IdleCreate EXCEPT !.phase = "creating", !.id = cg.id + 1,
                                !.payload = buildMatchPayload]
    /\ UNCHANGED << formVars, storeVars, players, decks, historyVars, net >>

createGame ==
    /\ UNCHANGED failures
    /\ ~(isSubmitting \/ ~canCreate)
    /\ nextMatchId <= MaxMatches
    /\ submitErrorMessage' = "null"
    /\ submitSuccessMessage' = "null"
    /\ isSubmitting' = TRUE
    /\ cg' = [IdleCreate EXCEPT !.phase = "creating", !.id = cg.id + 1,
                                !.payload = buildMatchPayload]
    /\ UNCHANGED << formVars, storeVars, players, decks, historyVars, net >>

\* next-callback of updateStatsForMatch().subscribe; loadPlayers and loadDecks
\* reload the lists, of which the form reads the identity fields only
CreateSucceeded(pass) ==
    /\ cg' = [pass EXCEPT !.phase = "done"]
    /\ isSubmitting' = FALSE
    /\ submitSuccessMessage' = MsgSaved
    /\ submitErrorMessage' = submitErrorMessage
    /\ \E loadedPlayers \in { [i \in DOMAIN storePlayers |-> PlayerView(storePlayers[i])] } :
       \E loadedDecks \in { [i \in DOMAIN storeDecks |-> DeckView(storeDecks[i])] } :
          /\ players' = loadedPlayers
          /\ decks' = loadedDecks
          /\ \E form \in reloadAutoDecks(loadedPlayers, loadedDecks) :
                /\ slots' = form.slots
                /\ pendingAutoDeckBySlot' = form.pending

\* variant that reports the failed pass as a success
CreateStatsFailed_AsSuccess(pass) ==
    /\ cg' = [pass EXCEPT !.phase = "failed", !.pending = {}]
    /\ isSubmitting' = FALSE
    /\ submitSuccessMessage' = MsgSaved
    /\ UNCHANGED << submitErrorMessage, players, decks, slotVars >>

\* variant whose error callback leaves the submit flag set
CreateStatsFailed_StillSubmitting(pass) ==
    /\ cg' = [pass EXCEPT !.phase = "failed", !.pending = {}]
    /\ submitErrorMessage' = MsgStatsFailed
    /\ UNCHANGED << isSubmitting, submitSuccessMessage, players, decks, slotVars >>

\* error-callback of updateStatsForMatch().subscribe
CreateStatsFailed(pass) ==
    /\ cg' = [pass EXCEPT !.phase = "failed", !.pending = {}]
    /\ isSubmitting' = FALSE
    /\ submitErrorMessage' = MsgStatsFailed
    /\ UNCHANGED << submitSuccessMessage, players, decks, slotVars >>

Calls(passId, requests) ==
    { [pass |-> passId, idx |-> i, req |-> requests[i]] :
        i \in { j \in DOMAIN requests : requests[j].kind # "none" } }

\* the store answers matchService.create; updateStatsForMatch walks the slots
MatchCreateOK ==
    /\ UNCHANGED failures
    /\ cg.phase = "creating"
    /\ storeMatches' = Append(storeMatches, [cg.payload EXCEPT !.matchID = nextMatchId])
    /\ nextMatchId' = nextMatchId + 1
    /\ LET playerDeltaMap == CG_playerDeltaMap(SlotCount)
           deckDeltaMap == CG_deckDeltaMap(SlotCount)
           pass == [cg EXCEPT !.playerDeltaMap = playerDeltaMap,
                              !.deckDeltaMap = deckDeltaMap,
                              !.matchID = nextMatchId,
                              !.slots = slots,
                              !.players = players,
                              !.decks = decks,
                              !.isCasual = (gameFormat = "casual")]
       IN  IF Len(playerDeltaMap) = 0 /\ Len(deckDeltaMap) = 0
           THEN CreateSucceeded(pass)
           ELSE /\ cg' = [pass EXCEPT !.phase = "fetching"]
                /\ UNCHANGED << players, decks, isSubmitting, submitErrorMessage,
                                submitSuccessMessage, slotVars >>
    /\ UNCHANGED << gameFormat, CG_matches, storePlayers, storeDecks, historyVars, net >>

MatchCreateFail ==
    /\ CanFail
    /\ failures' = failures + 1
    /\ cg.phase = "creating"
    /\ cg' = [cg EXCEPT !.phase = "failed"]
    /\ isSubmitting' = FALSE
    /\ submitErrorMessage' = MsgSaveFailed
    /\ UNCHANGED << formVars, storeVars, players, decks, submitSuccessMessage,
                    historyVars, net >>

\* switchMap of updateStatsForMatch, run when both snapshots have arrived
CreateIssue(pass) ==
    \E requests \in { CG_playerRequests(pass.playerDeltaMap, pass.snapPlayers)
                       \o CG_deckRequests(pass.deckDeltaMap, pass.snapDecks) } :
        \E calls \in { Calls(<< "c", pass.id >>, requests) } :
            \E issued \in { [pass EXCEPT !.requests = requests,
                                          !.pending = { c.idx : c \in calls }] } :
                IF calls = {}
                THEN CreateSucceeded(issued) /\ net' = net
                ELSE /\ cg' = [issued EXCEPT !.phase = "updating"]
                     /\ net' = net \cup calls
                     /\ UNCHANGED << players, decks, isSubmitting, submitErrorMessage,
                                     submitSuccessMessage, slotVars >>

CG_FetchPlayersOK ==
    /\ UNCHANGED failures
    /\ cg.phase = "fetching" /\ ~cg.hasPlayers
    /\ LET pass == [cg EXCEPT !.hasPlayers = TRUE, !.snapPlayers = storePlayers]
       IN  IF pass.hasDecks THEN CreateIssue(pass)
           ELSE /\ cg' = pass
                /\ UNCHANGED << players, decks, isSubmitting, submitErrorMessage,
                                submitSuccessMessage, net, slotVars >>
    /\ UNCHANGED << gameFormat, CG_matches, storeVars, historyVars >>

CG_FetchDecksOK ==
    /\ UNCHANGED failures
    /\ cg.phase = "fetching" /\ ~cg.hasDecks
    /\ LET pass == [cg EXCEPT !.hasDecks = TRUE, !.snapDecks = storeDecks]
       IN  IF pass.hasPlayers THEN CreateIssue(pass)
           ELSE /\ cg' = pass
                /\ UNCHANGED << players, decks, isSubmitting, submitErrorMessage,
                                submitSuccessMessage, net, slotVars >>
    /\ UNCHANGED << gameFormat, CG_matches, storeVars, historyVars >>

CG_FetchFail ==
    /\ CanFail
    /\ failures' = failures + 1
    /\ cg.phase = "fetching"
    /\ CreateStatsFailed(cg)
    /\ UNCHANGED << formVars, storeVars, historyVars, net >>

\* a settled update call of the apply pass (forkJoin: all must succeed)
CreateSettled(call, ok) ==
    IF cg.phase = "updating" /\ cg.id = call.pass[2] /\ call.idx \in cg.pending
    THEN IF ok
         THEN LET pass == [cg EXCEPT !.pending = cg.pending \ {call.idx}]
              IN  IF pass.pending = {} THEN CreateSucceeded(pass)
                  ELSE /\ cg' = pass
                       /\ UNCHANGED << players, decks, isSubmitting, submitErrorMessage,
                                       submitSuccessMessage, slotVars >>
         ELSE CreateStatsFailed(cg)
    ELSE UNCHANGED << createVars, slotVars >>

----------------------------------------------------------------------------
(* MatchHistoryComponent: loadMatches, deleteMatch and the rollback pass *)

MsgNoKey == "Unable to delete match: missing match id."
MsgDeleteFailed == "Failed to delete match or roll back stats."

loadMatches ==
    /\ UNCHANGED failures
    /\ matches' = storeMatches
    /\ errorMessage' = "null"
    /\ UNCHANGED << formVars, storeVars, createVars, deletingMatchKey, del, net >>

NewDelete(match, matchKey) ==
    [ phase |-> "deleting", matchKey |-> matchKey, match |-> match, removed |-> FALSE,
      playerMap |-> << >>, nameMap |-> << >>, deckMap |-> << >>,
      hasPlayers |-> FALSE, snapPlayers |-> << >>,
      hasDecks |-> FALSE, snapDecks |-> << >>,
      requests |-> << >>, pending |-> {} ]

\* the handler, whatever the number of deletes started before
deleteMatchCall(i) ==
    /\ UNCHANGED failures
    /\ i \in DOMAIN matches
    /\ LET match == matches[i]
           matchKey == getMatchKeyString(match)
       IN  IF ~Truthy(matchKey)
           THEN /\ errorMessage' = MsgNoKey
                /\ UNCHANGED << deletingMatchKey, del >>
           ELSE /\ errorMessage' = "null"
                /\ deletingMatchKey' = matchKey
                /\ del' = Append(del, NewDelete(match, matchKey))
    /\ UNCHANGED << formVars, storeVars, createVars, matches, net >>

deleteMatch(i) == Len(del) < MaxDeletes /\ deleteMatchCall(i)

\* the user deletes a match again that is still listed after its delete failed
deleteMatchAgain(i) ==
    /\ Len(del) >= MaxDeletes /\ Len(del) < MaxDeletes + MaxRetries
    /\ del[Len(del)].phase = "failed"
    /\ deleteMatchCall(i)

\* deleteMatch of another listed match while the last delete is under way
deleteMatchMeanwhile(i) ==
    /\ Len(del) >= MaxDeletes
    /\ Len(del) < MaxDeletes + MaxOverlap
    /\ del[Len(del)].phase \notin {"done", "failed"}
    /\ i \in DOMAIN matches
    /\ getMatchKeyString(matches[i]) # del[Len(del)].matchKey
    /\ deleteMatchCall(i)

\* next-callback of deleteMatch's subscribe
DeleteSucceeded(k, pass) ==
    /\ del' = [del EXCEPT ![k] = [pass EXCEPT !.phase = "done"]]
    /\ matches' = SelectSeq(matches, LAMBDA item : getMatchKeyString(item) # pass.matchKey)
    /\ deletingMatchKey' = Null
    /\ errorMessage' = errorMessage

\* error-callback of deleteMatch's subscribe
DeleteFailed(k, pass) ==
    /\ del' = [del EXCEPT ![k] = [pass EXCEPT !.phase = "failed", !.pending = {}]]
    /\ deletingMatchKey' = Null
    /\ errorMessage' = MsgDeleteFailed
    /\ matches' = matches

\* the store answers matchService.delete (idempotent by key); rollbackStats starts
MatchDeleteOK(k) ==
    /\ UNCHANGED failures
    /\ k \in DOMAIN del /\ del[k].phase = "deleting"
    /\ storeMatches' = SelectSeq(storeMatches,
                          LAMBDA item : getMatchKeyString(item) # del[k].matchKey)
    /\ IF Len(getMatchSeats(del[k].match)) = 0
       THEN DeleteSucceeded(k, [del[k] EXCEPT !.removed = TRUE])
       ELSE /\ del' = [del EXCEPT ![k].phase = "fetching", ![k].removed = TRUE]
            /\ UNCHANGED << matches, deletingMatchKey, errorMessage >>
    /\ UNCHANGED << formVars, storePlayers, storeDecks, nextMatchId, createVars, net >>

\* variant that drops the match from the local list although the delete failed
MatchDeleteFail_Removes(k) ==
    /\ CanFail
    /\ failures' = failures + 1
    /\ k \in DOMAIN del /\ del[k].phase = "deleting"
    /\ del' = [del EXCEPT ![k].phase = "failed"]
    /\ deletingMatchKey' = Null
    /\ errorMessage' = MsgDeleteFailed
    /\ matches' = SelectSeq(matches, LAMBDA item : getMatchKeyString(item) # del[k].matchKey)
    /\ UNCHANGED << formVars, storeVars, createVars, net >>

MatchDeleteFail(k) ==
    /\ CanFail
    /\ failures' = failures + 1
    /\ k \in DOMAIN del /\ del[k].phase = "deleting"
    /\ DeleteFailed(k, del[k])
    /\ UNCHANGED << formVars, storeVars, createVars, net >>

\* variant that reports a pass without update calls as failed
DeleteIssue_EmptyFails(k, pass) ==
    \E seats \in { getMatchSeats(pass.match) } :
    \E maps \in { MH_deltaMaps(seats, pass.match, Len(seats)) } :
    \E requests \in { MH_playerRequests(maps.playerMap, pass.snapPlayers)
                       \o MH_nameRequests(maps.nameMap, pass.snapPlayers)
                       \o MH_deckRequests(maps.deckMap, pass.snapDecks) } :
    \E calls \in { Calls(<< "d", k >>, requests) } :
    \E issued \in { [pass EXCEPT !.playerMap = maps.playerMap, !.nameMap = maps.nameMap,
                                  !.deckMap = maps.deckMap, !.requests = requests,
                                  !.pending = { c.idx : c \in calls }] } :
        IF calls = {}
        THEN DeleteFailed(k, issued) /\ net' = net
        ELSE /\ del' = [del EXCEPT ![k] = [issued EXCEPT !.phase = "updating"]]
             /\ net' = net \cup calls
             /\ UNCHANGED << matches, deletingMatchKey, errorMessage >>

\* switchMap of rollbackStats, run when both snapshots have arrived
DeleteIssue(k, pass) ==
    \E seats \in { getMatchSeats(pass.match) } :
    \E maps \in { MH_deltaMaps(seats, pass.match, Len(seats)) } :
    \E requests \in { MH_playerRequests(maps.playerMap, pass.snapPlayers)
                       \o MH_nameRequests(maps.nameMap, pass.snapPlayers)
                       \o MH_deckRequests(maps.deckMap, pass.snapDecks) } :
    \E calls \in { Calls(<< "d", k >>, requests) } :
    \E issued \in { [pass EXCEPT !.playerMap = maps.playerMap, !.nameMap = maps.nameMap,
                                  !.deckMap = maps.deckMap, !.requests = requests,
                                  !.pending = { c.idx : c \in calls }] } :
        IF calls = {}
        THEN DeleteSucceeded(k, issued) /\ net' = net
        ELSE /\ del' = [del EXCEPT ![k] = [issued EXCEPT !.phase = "updating"]]
             /\ net' = net \cup calls
             /\ UNCHANGED << matches, deletingMatchKey, errorMessage >>

MH_FetchPlayersOK(k) ==
    /\ UNCHANGED failures
    /\ k \in DOMAIN del /\ del[k].phase = "fetching" /\ ~del[k].hasPlayers
    /\ LET pass == [del[k] EXCEPT !.hasPlayers = TRUE, !.snapPlayers = storePlayers]
       IN  IF pass.hasDecks THEN DeleteIssue(k, pass)
           ELSE /\ del' = [del EXCEPT ![k] = pass]
                /\ UNCHANGED << matches, deletingMatchKey, errorMessage, net >>
    /\ UNCHANGED << formVars, storeVars, createVars >>

MH_FetchDecksOK(k) ==
    /\ UNCHANGED failures
    /\ k \in DOMAIN del /\ del[k].phase = "fetching" /\ ~del[k].hasDecks
    /\ LET pass == [del[k] EXCEPT !.hasDecks = TRUE, !.snapDecks = storeDecks]
       IN  IF pass.hasPlayers THEN DeleteIssue(k, pass)
           ELSE /\ del' = [del EXCEPT ![k] = pass]
                /\ UNCHANGED << matches, deletingMatchKey, errorMessage, net >>
    /\ UNCHANGED << formVars, storeVars, createVars >>

MH_FetchFail(k) ==
    /\ CanFail
    /\ failures' = failures + 1
    /\ k \in DOMAIN del /\ del[k].phase = "fetching"
    /\ DeleteFailed(k, del[k])
    /\ UNCHANGED << formVars, storeVars, createVars, net >>

\* a settled update call of a rollback pass (forkJoin: all must succeed)
DeleteSettled(call, ok) ==
    LET k == call.pass[2]
    IN  IF del[k].phase = "updating" /\ call.idx \in del[k].pending
        THEN IF ok
             THEN LET pass == [del[k] EXCEPT !.pending = del[k].pending \ {call.idx}]
                  IN  IF pass.pending = {} THEN DeleteSucceeded(k, pass)
                      ELSE /\ del' = [del EXCEPT ![k] = pass]
                           /\ UNCHANGED << matches, deletingMatchKey, errorMessage >>
             ELSE DeleteFailed(k, del[k])
        ELSE UNCHANGED historyVars

----------------------------------------------------------------------------
(* The store answers an update call: PUT /player/{id}, PUT /deck/{name} *)

StoreTarget(req) ==
    IF req.kind = "player"
    THEN FirstIndex(storePlayers, LAMBDA p : p.playerId = req.playerId)
    ELSE FirstIndex(storeDecks, LAMBDA d : d.deckName = req.deckName)

Settled(call, ok) ==
    IF call.pass[1] = "c"
    THEN CreateSettled(call, ok) /\ UNCHANGED historyVars
    ELSE DeleteSettled(call, ok) /\ UNCHANGED << createVars, slotVars >>

\* variant of a store that adds the call's delta to the counters it holds
UpdateOK_Additive(call) ==
    /\ UNCHANGED failures
    /\ call \in net
    /\ StoreTarget(call.req) # 0
    /\ net' = net \ {call}
    /\ storePlayers' =
          IF call.req.kind = "player"
          THEN [storePlayers EXCEPT ![StoreTarget(call.req)] =
                  [key \in DOMAIN @ |->
                      IF key \in StatKeys THEN @[key] + call.req.delta[key] ELSE @[key]]]
          ELSE storePlayers
    /\ storeDecks' =
          IF call.req.kind = "deck"
          THEN [storeDecks EXCEPT ![StoreTarget(call.req)] =
                  [key \in DOMAIN @ |->
                      IF key \in StatKeys THEN @[key] + call.req.delta[key] ELSE @[key]]]
          ELSE storeDecks
    /\ Settled(call, TRUE)
    /\ UNCHANGED << gameFormat, CG_matches, storeMatches, nextMatchId >>

\* the store replaces the record under the key by the payload and answers 200
UpdateOK(call) ==
    /\ UNCHANGED failures
    /\ call \in net
    /\ StoreTarget(call.req) # 0
    /\ net' = net \ {call}
    /\ storePlayers' = IF call.req.kind = "player"
                       THEN [storePlayers EXCEPT ![StoreTarget(call.req)] = call.req.payload]
                       ELSE storePlayers
    /\ storeDecks' = IF call.req.kind = "deck"
                     THEN [storeDecks EXCEPT ![StoreTarget(call.req)] = call.req.payload]
                     ELSE storeDecks
    /\ Settled(call, TRUE)
    /\ UNCHANGED << gameFormat, CG_matches, storeMatches, nextMatchId >>

\* the call is rejected (network or store failure) and changes nothing
UpdateFail(call) ==
    /\ CanFail
    /\ failures' = failures + 1
    /\ call \in net
    /\ net' = net \ {call}
    /\ Settled(call, FALSE)
    /\ UNCHANGED << gameFormat, CG_matches, storeVars >>

----------------------------------------------------------------------------

\* no operation is in flight and no update call is outstanding
Quiet ==
    /\ cg.phase \in {"idle", "done", "failed"}
    /\ \A k \in DOMAIN del : del[k].phase \in {"done", "failed"}
    /\ net = {}

\* The user starts an operation only when the previous one has finished
Next ==
    \/ Quiet /\ createGame /\ UNCHANGED << manageVars, calc >>
    \/ MatchCreateOK /\ UNCHANGED << manageVars, calc >>
    \/ MatchCreateFail /\ UNCHANGED << manageVars, calc >>
    \/ CG_FetchPlayersOK /\ UNCHANGED << manageVars, calc >>
    \/ CG_FetchDecksOK /\ UNCHANGED << manageVars, calc >>
    \/ CG_FetchFail /\ UNCHANGED << manageVars, calc >>
    \/ loadMatches /\ UNCHANGED << manageVars, calc >>
    \/ \E i \in DOMAIN matches : Quiet /\ deleteMatch(i) /\ UNCHANGED << manageVars, calc >>
    \/ \E k \in DOMAIN del : MatchDeleteOK(k) /\ UNCHANGED << manageVars, calc >>
    \/ \E k \in DOMAIN del : MatchDeleteFail(k) /\ UNCHANGED << manageVars, calc >>
    \/ \E k \in DOMAIN del : MH_FetchPlayersOK(k) /\ UNCHANGED << manageVars, calc >>
    \/ \E k \in DOMAIN del : MH_FetchDecksOK(k) /\ UNCHANGED << manageVars, calc >>
    \/ \E k \in DOMAIN del : MH_FetchFail(k) /\ UNCHANGED << manageVars, calc >>
    \/ \E call \in net : UpdateOK(call) /\ UNCHANGED << manageVars, calc >>
    \/ \E call \in net : UpdateFail(call) /\ UNCHANGED << manageVars, calc >>

Spec == Init /\ [][Next]_vars

----------------------------------------------------------------------------
(* The form stays editable while a create is in flight: gameFormat and the *)
(* slots are signals the component writes whenever the user changes a      *)
(* field; createGame's guard stops a second submit only.  The edits that   *)
(* matter are those made while matchService.create is outstanding, since   *)
(* updateStatsForMatch reads the form once, in the next-callback.          *)

EditScenarios ==
    [ roster : {RosterDistinct},
      results : { << S_win, S_loss, S_loss, S_loss >>, << S_tie, S_tie, S_tie, S_tie >> },
      format : {"cedh", "casual"}, start : {MaxStart} ]

\* the slot whose result field the user edits
EditSlots == {1}

InitEdit == \E sc \in EditScenarios : InitWith(sc)

NextEdit ==
    \/ Next
    \/ \E value \in {"cedh", "casual"} : cg.phase = "creating" /\ setGameFormat(value)
    \/ \E slotIndex \in EditSlots, value \in ResultValues :
          cg.phase = "creating" /\ updateResult(slotIndex, value)

SpecEdit == InitEdit /\ [][NextEdit]_vars

----------------------------------------------------------------------------
(* Overlapping operations: the user does not wait for an operation to      *)
(* finish before starting the next.  Two of the four stored players carry  *)
(* no numeric id, so a pass fans out to fewer update calls.                *)

RosterLean == << <<1, Ann>>, <<2, Bob>>, <<NoId, Cy>>, <<NoId, Dee>> >>

RaceScenarios ==
    [ roster : {RosterLean},
      results : { << S_win, S_loss, S_loss, S_loss >>,
                  << S_tie, S_tie, S_tie, S_tie >> },
      format : {"casual"}, start : 0..MaxStart ]

InitRace == \E sc \in RaceScenarios : InitWith(sc)

NextRace ==
    \/ createGame /\ UNCHANGED << manageVars, calc >>
    \/ MatchCreateOK /\ UNCHANGED << manageVars, calc >>
    \/ MatchCreateFail /\ UNCHANGED << manageVars, calc >>
    \/ CG_FetchPlayersOK /\ UNCHANGED << manageVars, calc >>
    \/ CG_FetchDecksOK /\ UNCHANGED << manageVars, calc >>
    \/ CG_FetchFail /\ UNCHANGED << manageVars, calc >>
    \/ loadMatches /\ UNCHANGED << manageVars, calc >>
    \/ \E i \in DOMAIN matches : deleteMatch(i) /\ UNCHANGED << manageVars, calc >>
    \/ \E k \in DOMAIN del : MatchDeleteOK(k) /\ UNCHANGED << manageVars, calc >>
    \/ \E k \in DOMAIN del : MatchDeleteFail(k) /\ UNCHANGED << manageVars, calc >>
    \/ \E k \in DOMAIN del : MH_FetchPlayersOK(k) /\ UNCHANGED << manageVars, calc >>
    \/ \E k \in DOMAIN del : MH_FetchDecksOK(k) /\ UNCHANGED << manageVars, calc >>
    \/ \E k \in DOMAIN del : MH_FetchFail(k) /\ UNCHANGED << manageVars, calc >>
    \/ \E call \in net : UpdateOK(call) /\ UNCHANGED << manageVars, calc >>
    \/ \E call \in net : UpdateFail(call) /\ UNCHANGED << manageVars, calc >>

SpecRace == InitRace /\ [][NextRace]_vars

\* Every answer the store can give to a call of createGame, to a delete call
\* or to an update call that is outstanding
Settle ==
    /\ \/ MatchCreateOK \/ MatchCreateFail
       \/ CG_FetchPlayersOK \/ CG_FetchDecksOK \/ CG_FetchFail
       \/ \E k \in DOMAIN del : MatchDeleteOK(k) \/ MatchDeleteFail(k)
       \/ \E call \in net : UpdateOK(call) \/ UpdateFail(call)
    /\ UNCHANGED << manageVars, calc >>

\* Every answer the store can give to a snapshot fetch of rollbackStats
SettleRollbackFetch ==
    /\ \E k \in DOMAIN del : MH_FetchPlayersOK(k) \/ MH_FetchDecksOK(k) \/ MH_FetchFail(k)
    /\ UNCHANGED << manageVars, calc >>

\* a snapshot fetch of rollbackStats is outstanding: SettleRollbackFetch is enabled
RollbackFetching == \E k \in DOMAIN del : del[k].phase = "fetching"

\* The same steps as Spec, with every outstanding store call answered eventually
LiveScenarios ==
    [ roster : {RosterDistinct},
      results : { << S_win, S_loss, S_loss, S_loss >>, << S_tie, S_loss, S_tie, S_tie >> },
      format : {"cedh", "casual"}, start : {MaxStart} ]

InitLive == \E sc \in LiveScenarios : InitWith(sc)

SpecLive ==
    /\ InitLive /\ [][Next]_vars
    /\ WF_vars(Settle)
    \* weak fairness of SettleRollbackFetch, its enabling condition written out
    /\ ([]<>(~RollbackFetching) \/ []<><< SettleRollbackFetch >>_vars)

----------------------------------------------------------------------------
(* A store whose records carry a negative counter: the store enforces no   *)
(* schema and coerceNumber accepts every finite number.                     *)

LooseScenarios ==
    [ roster : {RosterDistinct}, results : ResultChoices,
      format : {"cedh", "casual"}, start : {-1} ]

InitLoose == \E sc \in LooseScenarios : InitWith(sc)

SpecLoose == InitLoose /\ [][Next]_vars

----------------------------------------------------------------------------
(* PlayersComponent and DecksComponent: the add forms.  The router shows   *)
(* one of the two pages; calls holds the create calls in flight.           *)

MaxCreates == 2      \* create calls issued by one page in one behaviour

MsgPlayerNameRequired == "Player name is required."
MsgPlayerCreated == "Player created."
MsgPlayerCreateFailed == "Failed to create player. Check the API."
MsgDeckNameRequired == "Deck name is required."
MsgDeckCreated == "Deck created."
MsgDeckCreateFailed == "Failed to create deck. Check the API."

\* what the user may have typed into the name field
NameInputs(name) ==
    { EmptyString, << " " >>, << " ", " " >>, << " " >> \o name \o << " " >>, name }

gameVars == << formVars, createVars, historyVars, net, storeMatches, nextMatchId >>

RemoveAt(seq, i) == SubSeq(seq, 1, i - 1) \o SubSeq(seq, i + 1, Len(seq))

\* [(ngModel)] of the name field
setNewPlayerName(name) ==
    /\ playersComponent.routed
    /\ playersComponent' = [playersComponent EXCEPT !.newPlayerName = name]
    /\ UNCHANGED << gameVars, storePlayers, storeDecks, failures, decksComponent, calc >>

toggleAddPlayer ==
    /\ playersComponent.routed
    /\ playersComponent' = [playersComponent EXCEPT
                               !.showAddForm = ~playersComponent.showAddForm,
                               !.createPlayerErrorMessage = "null",
                               !.createPlayerSuccessMessage = "null"]
    /\ UNCHANGED << gameVars, storePlayers, storeDecks, failures, decksComponent, calc >>

\* next-callback of loadPlayers
loadPlayers ==
    /\ playersComponent.routed
    /\ playersComponent' = [playersComponent EXCEPT !.players = storePlayers]
    /\ UNCHANGED << gameVars, storePlayers, storeDecks, failures, decksComponent, calc >>

NewPlayerPayload(name) == [playerName |-> name] @@ Counters(0)

submitPlayer ==
    /\ playersComponent.routed
    /\ LET name == trim(playersComponent.newPlayerName)
       IN  IF ~Truthy(name)
           THEN playersComponent' = [playersComponent EXCEPT
                                        !.createPlayerErrorMessage = MsgPlayerNameRequired]
           ELSE /\ Len(storePlayers) + Len(playersComponent.calls) < SlotCount + MaxCreates
                /\ playersComponent' = [playersComponent EXCEPT
                                           !.createPlayerErrorMessage = "null",
                                           !.createPlayerSuccessMessage = "null",
                                           !.isCreatingPlayer = TRUE,
                                           !.calls = Append(@, NewPlayerPayload(name))]
    /\ UNCHANGED << gameVars, storePlayers, storeDecks, failures, decksComponent, calc >>

resetPlayerForm(component) == [component EXCEPT !.newPlayerName = EmptyString]

\* the store answers playerService.create with the stored row
PlayerCreateOK(i) ==
    /\ i \in DOMAIN playersComponent.calls
    /\ LET created == [playerId |-> Len(storePlayers) + 1] @@ playersComponent.calls[i]
       IN  /\ storePlayers' = Append(storePlayers, created)
           /\ playersComponent' =
                 [resetPlayerForm(playersComponent) EXCEPT
                     !.players = << created >> \o @,
                     !.isCreatingPlayer = FALSE,
                     !.createPlayerSuccessMessage = MsgPlayerCreated,
                     !.showAddForm = FALSE,
                     !.calls = RemoveAt(@, i)]
    /\ UNCHANGED << gameVars, storeDecks, failures, decksComponent, calc >>

PlayerCreateFail(i) ==
    /\ CanFail
    /\ failures' = failures + 1
    /\ i \in DOMAIN playersComponent.calls
    /\ playersComponent' = [playersComponent EXCEPT
                               !.isCreatingPlayer = FALSE,
                               !.createPlayerErrorMessage = MsgPlayerCreateFailed,
                               !.calls = RemoveAt(@, i)]
    /\ UNCHANGED << gameVars, storePlayers, storeDecks, decksComponent, calc >>

\* [(ngModel)] of the name field
setNewDeckName(name) ==
    /\ decksComponent.routed
    /\ decksComponent' = [decksComponent EXCEPT !.newDeckName = name]
    /\ UNCHANGED << gameVars, storePlayers, storeDecks, failures, playersComponent, calc >>

toggleAddDeck ==
    /\ decksComponent.routed
    /\ decksComponent' = [decksComponent EXCEPT
                             !.showAddForm = ~decksComponent.showAddForm,
                             !.createDeckErrorMessage = "null",
                             !.createDeckSuccessMessage = "null"]
    /\ UNCHANGED << gameVars, storePlayers, storeDecks, failures, playersComponent, calc >>

\* next-callback of loadDecks
loadDecks ==
    /\ decksComponent.routed
    /\ decksComponent' = [decksComponent EXCEPT !.decks = storeDecks]
    /\ UNCHANGED << gameVars, storePlayers, storeDecks, failures, playersComponent, calc >>

NewDeckPayload(name) == [deckName |-> name] @@ Counters(0)

submitDeck ==
    /\ decksComponent.routed
    /\ LET name == trim(decksComponent.newDeckName)
       IN  IF ~Truthy(name)
           THEN decksComponent' = [decksComponent EXCEPT
                                      !.createDeckErrorMessage = MsgDeckNameRequired]
           ELSE /\ Len(storeDecks) + Len(decksComponent.calls) < 2 + MaxCreates
                /\ decksComponent' = [decksComponent EXCEPT
                                         !.createDeckErrorMessage = "null",
                                         !.createDeckSuccessMessage = "null",
                                         !.isCreatingDeck = TRUE,
                                         !.calls = Append(@, NewDeckPayload(name))]
    /\ UNCHANGED << gameVars, storePlayers, storeDecks, failures, playersComponent, calc >>

resetDeckForm(component) == [component EXCEPT !.newDeckName = EmptyString]

\* the store answers deckService.create with the stored row
DeckCreateOK(i) ==
    /\ i \in DOMAIN decksComponent.calls
    /\ LET created == [playerID |-> Undefined] @@ decksComponent.calls[i]
       IN  /\ storeDecks' = Append(storeDecks, created)
           /\ decksComponent' =
                 [resetDeckForm(decksComponent) EXCEPT
                     !.decks = << created >> \o @,
                     !.isCreatingDeck = FALSE,
                     !.createDeckSuccessMessage = MsgDeckCreated,
                     !.showAddForm = FALSE,
                     !.calls = RemoveAt(@, i)]
    /\ UNCHANGED << gameVars, storePlayers, failures, playersComponent, calc >>

DeckCreateFail(i) ==
    /\ CanFail
    /\ failures' = failures + 1
    /\ i \in DOMAIN decksComponent.calls
    /\ decksComponent' = [decksComponent EXCEPT
                             !.isCreatingDeck = FALSE,
                             !.createDeckErrorMessage = MsgDeckCreateFailed,
                             !.calls = RemoveAt(@, i)]
    /\ UNCHANGED << gameVars, storePlayers, storeDecks, playersComponent, calc >>

NextManage ==
    \/ \E name \in NameInputs(Dee) : setNewPlayerName(name)
    \/ toggleAddPlayer
    \/ loadPlayers
    \/ submitPlayer
    \/ \E i \in DOMAIN playersComponent.calls : PlayerCreateOK(i)
    \/ \E i \in DOMAIN playersComponent.calls : PlayerCreateFail(i)
    \/ \E name \in NameInputs(Kess) : setNewDeckName(name)
    \/ toggleAddDeck
    \/ loadDecks
    \/ submitDeck
    \/ \E i \in DOMAIN decksComponent.calls : DeckCreateOK(i)
    \/ \E i \in DOMAIN decksComponent.calls : DeckCreateFail(i)

\* the router has constructed one of the two pages
InitManage ==
    /\ InitGame([roster |-> RosterDistinct, results |-> << S_win, S_loss, S_loss, S_loss >>,
                 format |-> "cedh", start |-> MaxStart])
    /\ \E page \in {"players", "decks"} :
          /\ playersComponent = [IdlePlayersComponent EXCEPT !.routed = (page = "players")]
          /\ decksComponent = [IdleDecksComponent EXCEPT !.routed = (page = "decks")]
    /\ calc = IdleCalc

SpecManage == InitManage /\ [][NextManage]_vars

----------------------------------------------------------------------------
(* mergeDelta on its own: the deltas a seat can contribute, merged in the  *)
(* accumulators of createGame (a) and of rollbackStats (c).                *)

MaxMerges == 2       \* merges applied to one accumulator in one behaviour

\* what buildDelta gives for a seat, and its inverse
SeatDeltas ==
    { CG_buildDelta(result, isCasual) :
        result \in {S_win, S_loss, S_tie, << >>}, isCasual \in BOOLEAN }
    \cup
    { invertDelta(MH_buildDelta(result, isCasual)) :
        result \in {S_win, S_loss, S_tie}, isCasual \in BOOLEAN }

\* playerDeltaMap.set(playerId, mergeDelta(existing, delta)) in createGame
mergeInApply ==
    /\ calc.merges < MaxMerges
    /\ calc' = [calc EXCEPT !.a = CG_mergeDelta(calc.a, calc.b), !.merges = @ + 1]
    /\ UNCHANGED << gameVars, storePlayers, storeDecks, failures, manageVars >>

\* playerMap.set(playerId, this.mergeDelta(existing, delta)) in rollbackStats
mergeInRollback ==
    /\ calc.merges < MaxMerges
    /\ calc' = [calc EXCEPT !.c = MH_mergeDelta(calc.c, calc.b), !.merges = @ + 1]
    /\ UNCHANGED << gameVars, storePlayers, storeDecks, failures, manageVars >>

NextCalc == mergeInApply \/ mergeInRollback

InitCalc ==
    /\ InitGame([roster |-> RosterDistinct, results |-> << S_win, S_loss, S_loss, S_loss >>,
                 format |-> "cedh", start |-> MaxStart])
    /\ playersComponent = IdlePlayersComponent
    /\ decksComponent = IdleDecksComponent
    /\ \E a \in SeatDeltas, b \in SeatDeltas, c \in SeatDeltas :
          calc = [a |-> a, b |-> b, c |-> c, merges |-> 0]

SpecCalc == InitCalc /\ [][NextCalc]_vars

----------------------------------------------------------------------------
(* buildDelta on its own: the seats of a match walked one after the other, *)
(* by updateStatsForMatch when a match is created and by rollbackStats     *)
(* when it is deleted.  calc.walk records each seat's result, the casual   *)
(* flag and the delta built for it.                                        *)

MaxWalk == 3         \* seats walked in one behaviour

\* type ResultType of the match history, and of a slot of the create form
ResultTypes == {S_win, S_loss, S_tie}

SlotResultTypes == {S_win, S_loss, S_tie, EmptyString}

otherVars == << gameVars, storePlayers, storeDecks, failures, manageVars >>

\* const delta = this.buildDelta(slot.result, isCasual) in updateStatsForMatch
walkSlot(result, isCasual) ==
    /\ Len(calc.walk) < MaxWalk
    /\ calc' = [calc EXCEPT !.walk = Append(@, [ component |-> "create-game",
                                                 result |-> result, isCasual |-> isCasual,
                                                 delta |-> CG_buildDelta(result, isCasual) ])]
    /\ UNCHANGED otherVars

\* this.buildDelta(result, isCasual) in rollbackStats, before invertDelta
walkSeat(result, isCasual) ==
    /\ Len(calc.walk) < MaxWalk
    /\ calc' = [calc EXCEPT !.walk = Append(@, [ component |-> "match-history",
                                                 result |-> result, isCasual |-> isCasual,
                                                 delta |-> MH_buildDelta(result, isCasual) ])]
    /\ UNCHANGED otherVars

NextDelta ==
    \/ \E result \in SlotResultTypes, isCasual \in BOOLEAN : walkSlot(result, isCasual)
    \/ \E result \in ResultTypes, isCasual \in BOOLEAN : walkSeat(result, isCasual)

FixedScenario ==
    [ roster |-> RosterDistinct, results |-> << S_win, S_loss, S_loss, S_loss >>,
      format |-> "cedh", start |-> MaxStart ]

InitDelta ==
    /\ InitGame(FixedScenario)
    /\ playersComponent = IdlePlayersComponent
    /\ decksComponent = IdleDecksComponent
    /\ calc = [walk |-> << >>]

SpecDelta == InitDelta /\ [][NextDelta]_vars

----------------------------------------------------------------------------
(* Seats that cannot be matched to a stored entity.  The form may list a   *)
(* player or deck the store no longer holds, a stored player may carry no  *)
(* numeric id, a deck no name; and the store may hold match records of     *)
(* other writers: with a seats array, possibly empty, with or without      *)
(* per-seat results.                                                       *)

StoredMatch(matchID, playerID, winnerName, playerWin, result, seats) ==
    [ matchID |-> matchID, playerID |-> playerID, deckName |-> Undefined,
      winnerName |-> winnerName, format |-> S_CEDH, playerWin |-> playerWin,
      opponentOne |-> Undefined, opponentOneDeck |-> Undefined,
      opponentTwo |-> Undefined, opponentTwoDeck |-> Undefined,
      opponentThree |-> Undefined, opponentThreeDeck |-> Undefined,
      result |-> result, seats |-> seats ]

S_LOSS == << "L", "O", "S", "S" >>

StoredMatchChoices ==
    { \* a seats array without seats
      StoredMatch(7, 1, Ann, TRUE, S_WIN, << >>),
      \* seats whose result cannot be resolved
      StoredMatch(7, NoId, Undefined, FALSE, Undefined,
                  << Seat(NoId, Cy, Rona, Undefined, Undefined),
                     Seat(NoId, Dee, Kess, Undefined, Undefined) >>),
      \* seats known by name, each with its own result
      StoredMatch(7, NoId, Bob, FALSE, S_WIN,
                  << Seat(NoId, Bob, Rona, S_win, Undefined),
                     Seat(NoId, Ann, Kess, S_loss, Undefined) >>),
      \* seats known by name, the result left to the match record
      StoredMatch(7, 1, Bob, FALSE, S_LOSS,
                  << Seat(NoId, Ann, Rona, Undefined, Undefined),
                     Seat(NoId, Bob, Kess, Undefined, Undefined) >>) }

SkipScenarios ==
    [ storePlayers : { << StoredPlayer(1, Ann, MaxStart), StoredPlayer(NoId, Bob, MaxStart),
                          StoredPlayer(3, Cy, MaxStart) >> },
      storeDecks : { << StoredDeck(Rona, 1, MaxStart) >> },
      players : { << [playerId |-> 1, playerName |-> Ann], [playerId |-> NoId, playerName |-> Bob],
                     [playerId |-> 3, playerName |-> Cy], [playerId |-> 4, playerName |-> Dee] >> },
      decks : { << [deckName |-> Rona], [deckName |-> Kess] >> },
      results : { << S_win, S_loss, S_loss, S_loss >>, << S_loss, S_win, S_loss, S_loss >>,
                  << S_tie, S_tie, S_tie, S_tie >> },
      format : {"cedh", "casual"},
      storeMatches : { << >> } ]
    \cup
    [ storePlayers : { [i \in 1..SlotCount |->
                          StoredPlayer(NoId, << Ann, Bob, Cy, Dee >>[i], MaxStart)] },
      storeDecks : { << StoredDeck(Undefined, 1, MaxStart), StoredDeck(Undefined, 2, MaxStart) >> },
      players : { [i \in 1..SlotCount |->
                     [playerId |-> NoId, playerName |-> << Ann, Bob, Cy, Dee >>[i]]] },
      decks : { << [deckName |-> Undefined], [deckName |-> Undefined] >> },
      results : { << S_win, S_loss, S_loss, S_loss >> },
      format : {"cedh"},
      storeMatches : { << >> } ]
    \cup
    [ storePlayers : { [i \in 1..SlotCount |->
                          StoredPlayer(i, << Ann, Bob, Cy, Dee >>[i], MaxStart)] },
      storeDecks : { << StoredDeck(Rona, 1, MaxStart), StoredDeck(Kess, 2, MaxStart) >> },
      players : { [i \in 1..SlotCount |->
                     [playerId |-> i, playerName |-> << Ann, Bob, Cy, Dee >>[i]]] },
      decks : { << [deckName |-> Rona], [deckName |-> Kess] >> },
      results : { << S_win, S_loss, S_loss, S_loss >> },
      format : {"cedh"},
      storeMatches : { << m >> : m \in StoredMatchChoices } ]

InitSkip ==
    \E sc \in SkipScenarios :
        /\ storePlayers = sc.storePlayers
        /\ storeDecks = sc.storeDecks
        /\ storeMatches = sc.storeMatches
        /\ nextMatchId = 1
        /\ players = sc.players
        /\ decks = sc.decks
        /\ slots = [i \in 1..SlotCount |->
                      [playerIndex |-> i - 1, deckIndex |-> DeckChoice[i], result |-> sc.results[i]]]
        /\ gameFormat = sc.format
        /\ pendingAutoDeckBySlot = << >>
        /\ CG_matches = sc.storeMatches
        /\ isSubmitting = FALSE
        /\ submitErrorMessage = "null"
        /\ submitSuccessMessage = "null"
        /\ cg = IdleCreate
        /\ matches = << >>
        /\ deletingMatchKey = Null
        /\ errorMessage = "null"
        /\ del = << >>
        /\ net = {}
        /\ failures = 0
        /\ playersComponent = IdlePlayersComponent
        /\ decksComponent = IdleDecksComponent
        /\ calc = IdleCalc

SpecSkip == InitSkip /\ [][Next]_vars

----------------------------------------------------------------------------
(* A stored match that spells a deck's name in another letter case than    *)
(* the deck record does; findDeckByName compares lower-cased names.        *)

SpellingScenario ==
    [ storePlayers |-> [i \in 1..SlotCount |->
                          StoredPlayer(i, << Ann, Bob, Cy, Dee >>[i], MaxStart)],
      storeDecks |-> << StoredDeck(Rona, 1, MaxStart), StoredDeck(Kess, 2, MaxStart) >>,
      players |-> [i \in 1..SlotCount |->
                     [playerId |-> i, playerName |-> << Ann, Bob, Cy, Dee >>[i]]],
      decks |-> << [deckName |-> Rona], [deckName |-> Kess] >>,
      results |-> << S_win, S_loss, S_loss, S_loss >>,
      format |-> "cedh",
      storeMatches |-> << StoredMatch(7, NoId, Undefined, FALSE, Undefined,
                            << Seat(1, Ann, toLowerCase(Rona), S_win, Undefined),
                               Seat(2, Bob, Kess, S_loss, Undefined) >>) >> ]

InitSpelling ==
    \E sc \in {SpellingScenario} :
        /\ storePlayers = sc.storePlayers
        /\ storeDecks = sc.storeDecks
        /\ storeMatches = sc.storeMatches
        /\ nextMatchId = 1
        /\ players = sc.players
        /\ decks = sc.decks
        /\ slots = [i \in 1..SlotCount |->
                      [playerIndex |-> i - 1, deckIndex |-> DeckChoice[i], result |-> sc.results[i]]]
        /\ gameFormat = sc.format
        /\ pendingAutoDeckBySlot = << >>
        /\ CG_matches = sc.storeMatches
        /\ isSubmitting = FALSE
        /\ submitErrorMessage = "null"
        /\ submitSuccessMessage = "null"
        /\ cg = IdleCreate
        /\ matches = << >>
        /\ deletingMatchKey = Null
        /\ errorMessage = "null"
        /\ del = << >>
        /\ net = {}
        /\ failures = 0
        /\ playersComponent = IdlePlayersComponent
        /\ decksComponent = IdleDecksComponent
        /\ calc = IdleCalc

SpecSpelling == InitSpelling /\ [][Next]_vars

----------------------------------------------------------------------------
(* resolveSeatResult on its own: one seat of one stored match.  calc holds *)
(* the seat and the match record as the store returned them, and the       *)
(* result once rollbackStats has resolved it.                              *)

S_WinTie == << "w","i","n","-","T","i","e" >>
S_Draw == << "d","r","a","w" >>
S_Blank == << " ", " " >>
S_AnnPadded == << " ", "a", "N", "N", " " >>

SeatInputs ==
    [ playerID : {NoId, 1, 2},
      playerName : {Undefined, S_AnnPadded, Bob},
      deckName : {Rona},
      result : {Undefined, S_Blank, S_Draw, S_WIN, S_WinTie, S_LOSS},
      format : {Undefined},
      tie : {"true", "false", "undefined"},
      playerWin : {"true", "false", "undefined"} ]

MatchInputs ==
    { StoredMatch(7, playerID, winnerName, playerWin, result, << >>) :
        playerID \in {NoId, 1}, winnerName \in {Undefined, Ann},
        playerWin \in BOOLEAN, result \in {Undefined, S_WIN, S_Tie, S_LOSS} }

\* const result = this.resolveSeatResult(seat, match) in rollbackStats
resolveSeat ==
    /\ ~calc.done
    /\ calc' = [calc EXCEPT !.done = TRUE,
                            !.resolved = resolveSeatResult(calc.seat, calc.match)]
    /\ UNCHANGED otherVars

InitResolve ==
    /\ InitGame(FixedScenario)
    /\ playersComponent = IdlePlayersComponent
    /\ decksComponent = IdleDecksComponent
    /\ \E seat \in SeatInputs, match \in MatchInputs :
          calc = [seat |-> seat, match |-> match, done |-> FALSE, resolved |-> Null]

SpecResolve == InitResolve /\ [][resolveSeat]_vars

----------------------------------------------------------------------------
(* Stored matches whose seats carry names only, some of them equal up to   *)
(* letter case, in a store where two players share a display name; in one  *)
(* roster the first of the two has no numeric id.                          *)

NamesakeMatchChoices ==
    { \* Ann twice, in two spellings, and Cy
      StoredMatch(7, NoId, Undefined, FALSE, Undefined,
                  << Seat(NoId, Ann, Rona, S_win, Undefined),
                     Seat(NoId, ann, Kess, S_loss, S_casual),
                     Seat(NoId, Cy, Kess, S_loss, Undefined) >>),
      \* ann, a padded spelling of it, and a player the store does not hold
      StoredMatch(7, NoId, Undefined, FALSE, Undefined,
                  << Seat(NoId, ann, Rona, S_tie, Undefined),
                     Seat(NoId, S_AnnPadded, Kess, S_tie, Undefined),
                     Seat(NoId, Bob, Kess, S_tie, Undefined) >>),
      \* one seat with the id of the second Ann, one with her name only
      StoredMatch(7, NoId, Undefined, FALSE, Undefined,
                  << Seat(2, ann, Rona, S_win, Undefined),
                     Seat(NoId, ann, Kess, S_loss, Undefined) >>) }

NamesakeScenarios ==
    [ storePlayers : { << StoredPlayer(1, Ann, MaxStart), StoredPlayer(2, ann, MaxStart),
                          StoredPlayer(3, Cy, MaxStart), StoredPlayer(4, Dee, MaxStart) >>,
                       << StoredPlayer(NoId, Ann, MaxStart), StoredPlayer(2, ann, MaxStart),
                          StoredPlayer(3, Cy, MaxStart), StoredPlayer(4, Dee, MaxStart) >> },
      storeDecks : { << StoredDeck(Rona, 1, MaxStart), StoredDeck(Kess, 2, MaxStart) >> },
      results : { << S_win, S_loss, S_loss, S_loss >> },
      format : {"cedh"},
      storeMatches : { << m >> : m \in NamesakeMatchChoices } ]

InitNamesake ==
    \E sc \in NamesakeScenarios :
        /\ storePlayers = sc.storePlayers
        /\ storeDecks = sc.storeDecks
        /\ storeMatches = sc.storeMatches
        /\ nextMatchId = 1
        /\ players = [i \in DOMAIN sc.storePlayers |-> PlayerView(sc.storePlayers[i])]
        /\ decks = [i \in DOMAIN sc.storeDecks |-> DeckView(sc.storeDecks[i])]
        /\ slots = [i \in 1..SlotCount |->
                      [playerIndex |-> i - 1, deckIndex |-> DeckChoice[i], result |-> sc.results[i]]]
        /\ gameFormat = sc.format
        /\ pendingAutoDeckBySlot = << >>
        /\ CG_matches = sc.storeMatches
        /\ isSubmitting = FALSE
        /\ submitErrorMessage = "null"
        /\ submitSuccessMessage = "null"
        /\ cg = IdleCreate
        /\ matches = << >>
        /\ deletingMatchKey = Null
        /\ errorMessage = "null"
        /\ del = << >>
        /\ net = {}
        /\ failures = 0
        /\ playersComponent = IdlePlayersComponent
        /\ decksComponent = IdleDecksComponent
        /\ calc = IdleCalc

SpecNamesake == InitNamesake /\ [][Next]_vars

----------------------------------------------------------------------------
(* getMatchSeats on its own: one match record as the store returns it,     *)
(* with or without a seats array.  calc holds the record and, once         *)
(* rollbackStats has read them, the seats.                                 *)

FlatMatchInputs ==
    { [StoredMatch(7, playerID, winnerName, playerWin, result, seats)
         EXCEPT !.deckName = deckName,
                !.opponentOne = one, !.opponentOneDeck = Kess,
                !.opponentTwo = two, !.opponentTwoDeck = Undefined,
                !.opponentThree = three, !.opponentThreeDeck = Rona] :
        playerID \in {NoId, 0, 1},
        winnerName \in {Undefined, Ann, S_AnnPadded, S_Tie},
        playerWin \in BOOLEAN,
        result \in {Undefined, S_WIN, S_TIE, S_LOSS, S_Draw},
        seats \in {NoSeats, << >>, << Seat(NoId, Cy, Kess, Undefined, Undefined) >>},
        deckName \in {Undefined, EmptyString, Rona},
        one \in {Undefined, ann},
        two \in {Undefined, EmptyString, Bob},
        three \in {Undefined, Cy} }

\* const seats = this.getMatchSeats(match) in rollbackStats
readSeats ==
    /\ ~calc.done
    /\ calc' = [calc EXCEPT !.done = TRUE, !.seats = getMatchSeats(calc.match)]
    /\ UNCHANGED otherVars

InitSeats ==
    /\ InitGame(FixedScenario)
    /\ playersComponent = IdlePlayersComponent
    /\ decksComponent = IdleDecksComponent
    /\ \E match \in FlatMatchInputs :
          calc = [match |-> match, done |-> FALSE, seats |-> << >>]

SpecSeats == InitSeats /\ [][readSeats]_vars

----------------------------------------------------------------------------
(* A delete that failed leaves the match in the list of the view; the user *)
(* may delete it again.  The store answers a delete call for a match it no *)
(* longer holds like any other call: with success or with a failure.       *)

RetryScenarios ==
    [ roster : {RosterDistinct},
      results : { << S_win, S_loss, S_loss, S_loss >>, << S_tie, S_tie, S_tie, S_tie >> },
      format : {"cedh", "casual"}, start : {MaxStart} ]

InitRetry == \E sc \in RetryScenarios : InitWith(sc)

NextRetry ==
    \/ Next
    \/ \E i \in DOMAIN matches : Quiet /\ deleteMatchAgain(i) /\ UNCHANGED << manageVars, calc >>

SpecRetry == InitRetry /\ [][NextRetry]_vars

----------------------------------------------------------------------------
(* Two listed matches, the second deleted while the delete of the first is *)
(* under way: deleteMatch has no test of deletingMatchKey, and each call   *)
(* has its own subscription.                                               *)

OverlapMatches ==
    << StoredMatch(7, 1, Ann, TRUE, S_WIN, << Seat(1, Ann, Rona, S_win, S_CEDH) >>),
       StoredMatch(8, 2, Bob, FALSE, S_LOSS, << Seat(2, Bob, Kess, S_loss, S_CEDH) >>) >>

InitOverlap ==
    /\ storePlayers = [i \in DOMAIN RosterDistinct |->
                          StoredPlayer(RosterDistinct[i][1], RosterDistinct[i][2], MaxStart)]
    /\ storeDecks = << StoredDeck(Rona, 1, MaxStart), StoredDeck(Kess, 2, MaxStart) >>
    /\ storeMatches = OverlapMatches
    /\ nextMatchId = 1
    /\ players = [i \in DOMAIN storePlayers |-> PlayerView(storePlayers[i])]
    /\ decks = [i \in DOMAIN storeDecks |-> DeckView(storeDecks[i])]
    /\ slots = buildEmptySlots
    /\ gameFormat = "cedh"
    /\ pendingAutoDeckBySlot = << >>
    /\ CG_matches = OverlapMatches
    /\ isSubmitting = FALSE
    /\ submitErrorMessage = "null"
    /\ submitSuccessMessage = "null"
    /\ cg = IdleCreate
    /\ matches = << >>
    /\ deletingMatchKey = Null
    /\ errorMessage = "null"
    /\ del = << >>
    /\ net = {}
    /\ failures = 0
    /\ playersComponent = IdlePlayersComponent
    /\ decksComponent = IdleDecksComponent
    /\ calc = IdleCalc

NextOverlap ==
    \/ loadMatches /\ UNCHANGED << manageVars, calc >>
    \/ \E i \in DOMAIN matches : deleteMatch(i) /\ UNCHANGED << manageVars, calc >>
    \/ \E i \in DOMAIN matches : deleteMatchMeanwhile(i) /\ UNCHANGED << manageVars, calc >>
    \/ \E k \in DOMAIN del : MatchDeleteOK(k) /\ UNCHANGED << manageVars, calc >>
    \/ \E k \in DOMAIN del : MatchDeleteFail(k) /\ UNCHANGED << manageVars, calc >>
    \/ \E k \in DOMAIN del : MH_FetchPlayersOK(k) /\ UNCHANGED << manageVars, calc >>
    \/ \E k \in DOMAIN del : MH_FetchDecksOK(k) /\ UNCHANGED << manageVars, calc >>
    \/ \E k \in DOMAIN del : MH_FetchFail(k) /\ UNCHANGED << manageVars, calc >>
    \/ \E call \in net : UpdateOK(call) /\ UNCHANGED << manageVars, calc >>
    \/ \E call \in net : UpdateFail(call) /\ UNCHANGED << manageVars, calc >>

SpecOverlap == InitOverlap /\ [][NextOverlap]_vars

----------------------------------------------------------------------------
(* The form from buildEmptySlots: the user fills in the slots through      *)
(* updatePlayer, updateDeck and updateResult and then submits.  The        *)
(* selects offer every player and deck of the lists; the choices below are *)
(* the slot's own player, the first player for the second slot as well,    *)
(* and the first deck.                                                     *)

FormPlayerChoices(slotIndex) ==
    {NullIndex, slotIndex - 1} \cup (IF slotIndex = 2 THEN {0} ELSE {})

FormDeckChoices == {NullIndex, 0}

InitForm ==
    /\ storePlayers = [i \in DOMAIN RosterDistinct |->
                          StoredPlayer(RosterDistinct[i][1], RosterDistinct[i][2], MaxStart)]
    /\ storeDecks = << StoredDeck(Rona, 1, MaxStart), StoredDeck(Kess, 2, MaxStart) >>
    /\ storeMatches = << >>
    /\ nextMatchId = 1
    /\ players = [i \in DOMAIN storePlayers |-> PlayerView(storePlayers[i])]
    /\ decks = [i \in DOMAIN storeDecks |-> DeckView(storeDecks[i])]
    /\ slots = buildEmptySlots
    /\ gameFormat = "cedh"
    /\ pendingAutoDeckBySlot = << >>
    /\ CG_matches = << >>
    /\ isSubmitting = FALSE
    /\ submitErrorMessage = "null"
    /\ submitSuccessMessage = "null"
    /\ cg = IdleCreate
    /\ matches = << >>
    /\ deletingMatchKey = Null
    /\ errorMessage = "null"
    /\ del = << >>
    /\ net = {}
    /\ failures = 0
    /\ playersComponent = IdlePlayersComponent
    /\ decksComponent = IdleDecksComponent
    /\ calc = IdleCalc

NextForm ==
    \/ Next
    \/ \E slotIndex \in 1..SlotCount, value \in ResultValues :
          cg.phase = "idle" /\ updateResult(slotIndex, value)
    \/ \E slotIndex \in 1..SlotCount : \E playerIndex \in FormPlayerChoices(slotIndex) :
          cg.phase = "idle" /\ updatePlayer(slotIndex, playerIndex)
                            /\ UNCHANGED << manageVars, calc >>
    \/ \E slotIndex \in 1..SlotCount, deckIndex \in FormDeckChoices :
          cg.phase = "idle" /\ updateDeck(slotIndex, deckIndex)
                            /\ UNCHANGED << manageVars, calc >>

SpecForm == InitForm /\ [][NextForm]_vars

----------------------------------------------------------------------------
(* getPlayerId on the player record as the API returns it.  A field of the *)
(* record is undefined (absent), null, a number or a string; JSON carries  *)
(* finite numbers only.  calc holds the snapshot and the id looked up.     *)

AbsentValue == [t |-> "undefined"]
NullValue == [t |-> "null"]
NumberValue(n) == [t |-> "number", v |-> n]
StringValue(s) == [t |-> "string", s |-> s]

\* a ?? b ?? c over the fields of a record
Coalesce(record, keys) ==
    LET idx == FirstIndex(keys, LAMBDA key : record[key].t \notin {"undefined", "null"})
    IN  IF idx = 0 THEN record[keys[Len(keys)]] ELSE record[keys[idx]]

IsDigits(s) == s # << >> /\ \A i \in DOMAIN s : \E d \in DOMAIN DigitChars : DigitChars[d] = s[i]

DigitValue(c) == (CHOOSE d \in DOMAIN DigitChars : DigitChars[d] = c) - 1

RECURSIVE DecimalValue(_)
DecimalValue(s) ==
    IF s = << >> THEN 0
    ELSE DecimalValue(SubSeq(s, 1, Len(s) - 1)) * 10 + DigitValue(s[Len(s)])

\* Number(text) is NaN: over digits, blanks and letters other than the ones
\* of the numeric literals, every text that is not blank-padded digits
NumberIsNaN(text) == trim(text) # << >> /\ ~IsDigits(trim(text))

Number(text) == DecimalValue(trim(text))

\* variant that tests typeof candidate === 'number' only
getPlayerIdOfRecord_NumbersOnly(record) ==
    LET candidate == Coalesce(record, << "playerID", "playerId", "id" >>)
    IN  IF candidate.t = "number" THEN candidate.v ELSE NoId

\* MatchHistoryComponent.getPlayerId and CreateGameComponent.getPlayerId
getPlayerIdOfRecord(record) ==
    LET candidate == Coalesce(record, << "playerID", "playerId", "id" >>)
    IN  IF candidate.t = "number" THEN candidate.v
        ELSE IF candidate.t = "string" /\ trim(candidate.s) # << >>
                /\ ~NumberIsNaN(candidate.s)
             THEN Number(candidate.s)
        ELSE NoId

findPlayerRecordById(playerList, playerId) ==
    FirstIndex(playerList, LAMBDA player : getPlayerIdOfRecord(player) = playerId)

S_7 == << "7" >>
S_7Padded == << " ", "7", " " >>
S_07 == << "0", "7" >>
S_a7 == << "a", "7" >>
S_10 == << "1", "0" >>

PlayerRecordInputs ==
    [ playerID : {AbsentValue, NullValue, StringValue(S_7), StringValue(S_7Padded),
                  StringValue(S_a7), NumberValue(3)},
      playerId : {AbsentValue, NumberValue(7), StringValue(S_10), StringValue(S_Blank)},
      id : {AbsentValue, NumberValue(0), StringValue(S_07)} ]

IdInputs == {0, 3, 7, 10}

\* players.find((item) => this.getPlayerId(item) === playerId)
lookupPlayer ==
    /\ ~calc.done
    /\ calc' = [calc EXCEPT !.done = TRUE,
                            !.ids = [i \in DOMAIN calc.players |->
                                        getPlayerIdOfRecord(calc.players[i])],
                            !.found = findPlayerRecordById(calc.players, calc.playerId)]
    /\ UNCHANGED otherVars

InitIdentity ==
    /\ InitGame(FixedScenario)
    /\ playersComponent = IdlePlayersComponent
    /\ decksComponent = IdleDecksComponent
    /\ \E first \in PlayerRecordInputs, playerId \in IdInputs :
       \E second \in { [playerID |-> AbsentValue, playerId |-> NumberValue(7), id |-> AbsentValue],
                       [playerID |-> StringValue(S_7), playerId |-> AbsentValue, id |-> AbsentValue] } :
          calc = [players |-> << first, second >>, playerId |-> playerId,
                  done |-> FALSE, ids |-> << >>, found |-> 0]

SpecIdentity == InitIdentity /\ [][lookupPlayer]_vars

----------------------------------------------------------------------------
(* The favorite deck of each player, computed from the match history by    *)
(* CreateGameComponent (favoriteDeckMaps) and by PlayersComponent.  A Map  *)
(* is a sequence of entries in insertion order.  calc holds the history    *)
(* and what the two components compute from it.                            *)

\* PlayersComponent: bump(playerKey, deckName)
PC_bump(counts, playerKey, deckName) ==
    IF ~Truthy(deckName) THEN counts
    ELSE IF trim(deckName) = << >> THEN counts
    ELSE bumpCount(counts, playerKey, trim(deckName))

PC_idKey(playerID) == << "i", "d", ":" >> \o NumberToString(playerID)

PC_nameKey(name) == << "n", "a", "m", "e", ":" >> \o name

PC_bumpPair(counts, name, deck) ==
    IF Truthy(name) THEN PC_bump(counts, PC_nameKey(name), IF Truthy(deck) THEN deck ELSE Undefined)
    ELSE counts

RECURSIVE PC_counts(_, _)
PC_counts(history, n) ==
    IF n = 0 THEN << >>
    ELSE LET match == history[n]
             c0 == PC_counts(history, n - 1)
             c1 == IF match.playerID # NoId
                   THEN PC_bump(c0, PC_idKey(match.playerID), match.deckName) ELSE c0
             c2 == PC_bumpPair(c1, match.opponentOne, match.opponentOneDeck)
             c3 == PC_bumpPair(c2, match.opponentTwo, match.opponentTwoDeck)
         IN  PC_bumpPair(c3, match.opponentThree, match.opponentThreeDeck)

buildFavoriteDeckMap(history) ==
    LET counts == PC_counts(history, Len(history))
    IN  favoritesOf(counts, Len(counts))

S_A == << "A" >>
S_a == << "a" >>
S_aPadded == << " ", "a", " " >>
MonoRed == << "M","o","n","o"," ","R","e","d" >>
S_monored == << "m","o","n","o","r","e","d" >>
S_monoDashRed == << "m","o","n","o","-","r","e","d" >>
Izzet == << "I","z","z","e","t" >>
S_Punct == << "!", "!" >>

LegacyMatch(playerID, deckName, winnerName, one, oneDeck, two, twoDeck) ==
    [ StoredMatch(7, playerID, winnerName, TRUE, S_WIN, Undefined)
        EXCEPT !.deckName = deckName,
               !.opponentOne = one, !.opponentOneDeck = oneDeck,
               !.opponentTwo = two, !.opponentTwoDeck = twoDeck ]

HistoryChoices ==
    { LegacyMatch(1, Rona, Ann, S_A, MonoRed, Undefined, Undefined),
      LegacyMatch(1, Kess, Bob, S_A, Izzet, Undefined, Undefined),
      LegacyMatch(NoId, Kess, Ann, S_A, S_monoDashRed, Bob, S_Blank),
      LegacyMatch(1, Undefined, Undefined, S_aPadded, Izzet, Bob, S_Punct),
      LegacyMatch(0, Rona, Bob, Undefined, MonoRed, S_A, EmptyString) }

MaxHistory == 4

\* loadMatches' next-callback: matches.set(data); the favorites are recomputed
historyLoaded(match) ==
    /\ Len(calc.history) < MaxHistory
    /\ \E history \in { Append(calc.history, match) } :
          calc' = [ history |-> history,
                    maps |-> buildFavoriteDeckMaps(history),
                    favorites |-> buildFavoriteDeckMap(history) ]
    /\ UNCHANGED otherVars

InitFavorite ==
    /\ InitGame(FixedScenario)
    /\ playersComponent = IdlePlayersComponent
    /\ decksComponent = IdleDecksComponent
    /\ calc = [ history |-> << >>, maps |-> [byId |-> << >>, byName |-> << >>],
                favorites |-> << >> ]

NextFavorite == \E match \in HistoryChoices : historyLoaded(match)

SpecFavorite == InitFavorite /\ [][NextFavorite]_vars

----------------------------------------------------------------------------
(* The automatic deck choice.  The form loaded its deck list when the      *)
(* store held Kess only; the history has Ann playing Rona, a deck the      *)
(* store holds again in one of the two initial states.  Slots two to four  *)
(* are filled in; the user edits the first slot and submits.  The lists    *)
(* are loaded again in the success callback of createGame.  calc holds the *)
(* slots whose deck the user chose with updateDeck after the slot's player *)
(* and whether the loadMatches call of ngOnInit is outstanding.            *)

AutoHistory == << LegacyMatch(1, Rona, Ann, Bob, Kess, Undefined, Undefined) >>

AutoStoreDecks ==
    { << StoredDeck(Kess, 2, MaxStart) >>,
      << StoredDeck(Kess, 2, MaxStart), StoredDeck(Rona, 1, MaxStart) >> }

InitAuto ==
    /\ storePlayers = [i \in DOMAIN RosterDistinct |->
                          StoredPlayer(RosterDistinct[i][1], RosterDistinct[i][2], MaxStart)]
    /\ storeDecks \in AutoStoreDecks
    /\ storeMatches = AutoHistory
    /\ nextMatchId = 1
    /\ players = [i \in DOMAIN storePlayers |-> PlayerView(storePlayers[i])]
    /\ decks = << DeckView(StoredDeck(Kess, 2, MaxStart)) >>
    /\ slots = [i \in 1..SlotCount |->
                  IF i = 1 THEN buildEmptySlots[i]
                  ELSE [playerIndex |-> i - 1, deckIndex |-> 0, result |-> << >>]]
    /\ gameFormat = "cedh"
    /\ pendingAutoDeckBySlot = << >>
    /\ CG_matches = << >>
    /\ isSubmitting = FALSE
    /\ submitErrorMessage = "null"
    /\ submitSuccessMessage = "null"
    /\ cg = IdleCreate
    /\ matches = << >>
    /\ deletingMatchKey = Null
    /\ errorMessage = "null"
    /\ del = << >>
    /\ net = {}
    /\ failures = 0
    /\ playersComponent = IdlePlayersComponent
    /\ decksComponent = IdleDecksComponent
    /\ calc = [explicit |-> {}, matchesLoading |-> TRUE]

NextAuto ==
    \/ Quiet /\ createGame /\ UNCHANGED << manageVars, calc >>
    \/ MatchCreateOK /\ UNCHANGED << manageVars, calc >>
    \/ MatchCreateFail /\ UNCHANGED << manageVars, calc >>
    \/ CG_FetchPlayersOK /\ UNCHANGED << manageVars, calc >>
    \/ CG_FetchDecksOK /\ UNCHANGED << manageVars, calc >>
    \/ CG_FetchFail /\ UNCHANGED << manageVars, calc >>
    \/ \E call \in net : UpdateOK(call) /\ UNCHANGED << manageVars, calc >>
    \/ \E call \in net : UpdateFail(call) /\ UNCHANGED << manageVars, calc >>
    \/ /\ calc.matchesLoading
       /\ CG_loadMatchesNext
       /\ calc' = [calc EXCEPT !.matchesLoading = FALSE]
       /\ UNCHANGED manageVars
    \/ /\ calc.matchesLoading
       /\ CG_loadMatchesError
       /\ calc' = [calc EXCEPT !.matchesLoading = FALSE]
       /\ UNCHANGED manageVars
    \/ \E slotIndex \in EditSlots, value \in ResultValues :
          cg.phase = "idle" /\ updateResult(slotIndex, value)
    \/ \E slotIndex \in EditSlots, playerIndex \in {NullIndex, 0} :
          /\ cg.phase = "idle"
          /\ updatePlayer(slotIndex, playerIndex)
          /\ calc' = [calc EXCEPT !.explicit = @ \ {slotIndex}]
          /\ UNCHANGED manageVars
    \/ \E slotIndex \in EditSlots :
       \E deckIndex \in {NullIndex} \cup { i - 1 : i \in DOMAIN decks } :
          /\ cg.phase = "idle"
          /\ updateDeck(slotIndex, deckIndex)
          /\ calc' = [calc EXCEPT !.explicit =
                          IF slots[slotIndex].playerIndex # NullIndex /\ deckIndex # NullIndex
                          THEN @ \cup {slotIndex} ELSE @ \ {slotIndex}]
          /\ UNCHANGED manageVars

SpecAuto == InitAuto /\ [][NextAuto]_vars

----------------------------------------------------------------------------
(* Shared vocabulary of the properties *)

Stat(rec) == [key \in StatKeys |-> rec[key]]

\* the delta the design prescribes for an outcome (Delta Builder)
OutcomeDelta(result, isCasual) ==
    [ wins |-> IF result = S_win THEN 1 ELSE 0,
      losses |-> IF result = S_loss THEN 1 ELSE 0,
      ties |-> IF result = S_tie THEN 1 ELSE 0,
      casualWins |-> IF result = S_win /\ isCasual THEN 1 ELSE 0,
      casualLosses |-> IF result = S_loss /\ isCasual THEN 1 ELSE 0 ]

RECURSIVE SumOver(_, _)
SumOver(S, f) ==
    IF S = {} THEN 0
    ELSE LET x == CHOOSE y \in S : TRUE IN f[x] + SumOver(S \ {x}, f)

\* the calls of a pass and the snapshot record each was computed from
CallsOf(pass) == { i \in DOMAIN pass.requests : pass.requests[i].kind # "none" }

SnapOf(pass, req) ==
    IF req.kind = "player" THEN pass.snapPlayers[req.target] ELSE pass.snapDecks[req.target]

Issued(pass) == pass.phase \in {"updating", "done", "failed"} /\ pass.requests # << >>

NoClampEngaged(pass) ==
    \A i \in CallsOf(pass) : \A key \in StatKeys :
        SnapOf(pass, pass.requests[i])[key] + pass.requests[i].delta[key] >= 0

\* index of the stored player seated in a slot of the create form, 0 if none
SeatedPlayer(slot) ==
    IF slot.playerIndex = NullIndex \/ players[slot.playerIndex + 1].playerId = NoId THEN 0
    ELSE FirstIndex(storePlayers,
                    LAMBDA p : p.playerId = players[slot.playerIndex + 1].playerId)

SeatedDeck(slot) ==
    IF slot.deckIndex = NullIndex THEN 0
    ELSE FirstIndex(storeDecks, LAMBDA d : d.deckName = decks[slot.deckIndex + 1].deckName)

\* one create followed by the delete of that match, every store call answered
\* with success, nothing else in between
RoundTripDone ==
    /\ Len(del) = 1 /\ del[1].phase = "done"
    /\ cg.phase = "done" /\ del[1].match.matchID = cg.matchID
    /\ failures = 0 /\ net = {}
    /\ NoClampEngaged(del[1])

----------------------------------------------------------------------------
(* C1: starting from non-negative counters, every stored player and deck   *)
(* counter stays >= 0 after any interleaving of match creations and        *)
(* deletions, including passes whose update calls partly fail.             *)
C1_CountersNonNegative ==
    /\ \A i \in DOMAIN storePlayers : \A key \in StatKeys : storePlayers[i][key] >= 0
    /\ \A i \in DOMAIN storeDecks : \A key \in StatKeys : storeDecks[i][key] >= 0

\* an apply pass failed part-way while the rollback of the same match,
\* overlapping it, wrote a clamped counter
C1_Witness ==
    /\ cg.phase = "failed" /\ cg.requests # << >>
    /\ \E k \in DOMAIN del :
          /\ del[k].phase = "done"
          /\ del[k].hasPlayers /\ cg.hasPlayers
          /\ ~NoClampEngaged(del[k])
          /\ \E i \in DOMAIN storePlayers :
                Stat(storePlayers[i]) # Stat(cg.snapPlayers[i])

----------------------------------------------------------------------------
(* C2: player round trip.  Creating a match and then deleting it, every    *)
(* call succeeding, nothing in between and no clamp engaged, leaves every  *)
(* seated player's five counters as they were before the creation.         *)
C2_PlayerRoundTrip ==
    RoundTripDone =>
        \A n \in DOMAIN cg.slots :
            LET t == SeatedPlayer(cg.slots[n])
            IN  t # 0 => Stat(storePlayers[t]) = Stat(cg.snapPlayers[t])

----------------------------------------------------------------------------
(* C3: deck round trip.  Creating a match and then deleting it, every call *)
(* succeeding, nothing in between and no clamp engaged, leaves every       *)
(* seated deck's five counters as they were before the creation.           *)
C3_DeckRoundTrip ==
    RoundTripDone =>
        \A n \in DOMAIN cg.slots :
            LET t == SeatedDeck(cg.slots[n])
            IN  t # 0 => Stat(storeDecks[t]) = Stat(cg.snapDecks[t])

----------------------------------------------------------------------------
(* C4: on match creation the delta accumulated for a deck is the sum of    *)
(* the outcome deltas of the seats that play it: the same delta that the   *)
(* seat's player receives (wins for a win, losses for a loss, ties for a   *)
(* tie, with the casual variant iff the match is casual).                  *)
C4_DeckDeltaIsOutcomeDelta ==
    cg.phase \in {"fetching", "updating", "done"} =>
        \A e \in DOMAIN cg.deckDeltaMap :
            LET entry == cg.deckDeltaMap[e]
                seats == { n \in DOMAIN cg.slots :
                             cg.slots[n].deckIndex # NullIndex
                             /\ decks[cg.slots[n].deckIndex + 1].deckName = entry.key }
            IN  \A key \in StatKeys :
                    entry.value[key] =
                        SumOver(seats, [n \in seats |->
                            OutcomeDelta(cg.slots[n].result, cg.isCasual)[key]])

----------------------------------------------------------------------------
(* C5: in one reconciliation pass no stored player and no stored deck      *)
(* receives two update calls, whatever ids, names and letter case the      *)
(* seats use to refer to it.                                               *)
OneCallPerEntity(pass) ==
    \A i, j \in CallsOf(pass) :
        (i # j /\ pass.requests[i].kind = pass.requests[j].kind)
            => pass.requests[i].target # pass.requests[j].target

C5_OneUpdatePerEntity ==
    /\ OneCallPerEntity(cg)
    /\ \A k \in DOMAIN del : OneCallPerEntity(del[k])

----------------------------------------------------------------------------
(* C6: every update payload of a rollback sets each counter to             *)
(* max(0, c + d), c the counter in the snapshot fetched for the pass and d *)
(* the inverted delta accumulated for the entity over the match's seats;   *)
(* no rollback payload carries a negative counter.                         *)
\* what the rollback reads off each seat of a match: who, which deck, and the
\* delta the design prescribes for the seat's outcome
SeatFacts(match) ==
    LET seats == getMatchSeats(match)
    IN  [ n \in DOMAIN seats |->
            LET result == resolveSeatResult(seats[n], match)
                name == getSeatPlayerName(seats[n])
            IN  [ counted |-> result # Null,
                  playerId |-> getSeatPlayerId(seats[n]),
                  nameKey |-> IF Truthy(name) THEN toLowerCase(name) ELSE Undefined,
                  deckName |-> getSeatDeckName(seats[n]),
                  delta |-> OutcomeDelta(result,
                               isCasualFormat(IF seats[n].format # Undefined
                                              THEN seats[n].format
                                              ELSE match.format)) ] ]

RollbackSeats(facts, req) ==
    { n \in DOMAIN facts :
        /\ facts[n].counted
        /\ CASE req.via = "id" -> facts[n].playerId = req.playerId
             [] req.via = "name" ->
                    facts[n].playerId = NoId /\ facts[n].nameKey = req.key
             [] req.via = "deck" -> facts[n].deckName = req.deckName }

RECURSIVE SumDeltas(_, _)
SumDeltas(S, facts) ==
    IF S = {} THEN ZeroDelta
    ELSE LET x == CHOOSE y \in S : TRUE
             rest == SumDeltas(S \ {x}, facts)
         IN  [key \in StatKeys |-> facts[x].delta[key] + rest[key]]

RollbackDelta(facts, req) ==
    LET total == SumDeltas(RollbackSeats(facts, req), facts)
    IN  [key \in StatKeys |-> 0 - total[key]]

ClampedFrom(payload, snap, d) ==
    \A key \in StatKeys : payload[key] = Max(0, snap[key] + d[key]) /\ payload[key] >= 0

C6_RollbackPayloadClamped ==
    \A k \in DOMAIN del :
        CallsOf(del[k]) # {} =>
            \E facts \in {SeatFacts(del[k].match)} :
                \A i \in CallsOf(del[k]) :
                    \E d \in {RollbackDelta(facts, del[k].requests[i])} :
                        ClampedFrom(del[k].requests[i].payload,
                                    SnapOf(del[k], del[k].requests[i]), d)

\* a rollback was applied whose decrement met a counter already at zero
C6_Witness ==
    \E k \in DOMAIN del :
        /\ del[k].phase = "done"
        /\ \E i \in CallsOf(del[k]) :
              \E d \in {RollbackDelta(SeatFacts(del[k].match), del[k].requests[i])} :
                  \E key \in StatKeys :
                      /\ SnapOf(del[k], del[k].requests[i])[key] + d[key] < 0
                      /\ del[k].requests[i].payload[key] = 0

----------------------------------------------------------------------------
(* C7: every update payload of a match creation sets each counter to       *)
(* max(0, stored + delta), also when the stored counter is negative.       *)
C7_ApplyPayloadClamped ==
    Issued(cg) =>
        \A i \in CallsOf(cg) : \A key \in StatKeys :
            LET req == cg.requests[i]
            IN  req.payload[key] = Max(0, SnapOf(cg, req)[key] + req.delta[key])

----------------------------------------------------------------------------
(* C8: a successfully created competitive match adds exactly 1 to wins of  *)
(* the player of each winning seat and exactly 1 to losses of the player   *)
(* of each losing seat, and changes no player's casual counters.           *)
CreateApplied == cg.phase = "done" /\ cg.hasPlayers /\ del = << >> /\ net = {}

C8_CompetitiveCreate ==
    (CreateApplied /\ ~cg.isCasual) =>
        /\ \A n \in DOMAIN cg.slots :
              LET t == SeatedPlayer(cg.slots[n])
              IN  t # 0 =>
                    /\ cg.slots[n].result = S_win =>
                          storePlayers[t].wins = cg.snapPlayers[t].wins + 1
                    /\ cg.slots[n].result = S_loss =>
                          storePlayers[t].losses = cg.snapPlayers[t].losses + 1
        /\ \A t \in DOMAIN storePlayers :
              /\ storePlayers[t].casualWins = cg.snapPlayers[t].casualWins
              /\ storePlayers[t].casualLosses = cg.snapPlayers[t].casualLosses

\* a competitive match with a winner and losers was created and applied
C8_Witness ==
    /\ CreateApplied /\ ~cg.isCasual
    /\ \E n, m \in DOMAIN cg.slots :
          /\ cg.slots[n].result = S_win /\ SeatedPlayer(cg.slots[n]) # 0
          /\ cg.slots[m].result = S_loss /\ SeatedPlayer(cg.slots[m]) # 0
          /\ storePlayers[SeatedPlayer(cg.slots[n])].wins
               = cg.snapPlayers[SeatedPlayer(cg.slots[n])].wins + 1

----------------------------------------------------------------------------
(* C9: a successfully created casual match in which all four seats tie     *)
(* adds exactly 1 to ties of each of the four players and changes wins,    *)
(* losses, casualWins and casualLosses of no player and of no deck.        *)
AllTie(ss) == ss # << >> /\ \A n \in DOMAIN ss : ss[n].result = S_tie

NonTieKeys == StatKeys \ {"ties"}

C9_CasualFullTie ==
    (CreateApplied /\ cg.hasDecks /\ cg.isCasual /\ AllTie(cg.slots)) =>
        /\ \A n \in DOMAIN cg.slots :
              LET t == SeatedPlayer(cg.slots[n])
              IN  t # 0 => storePlayers[t].ties = cg.snapPlayers[t].ties + 1
        /\ \A t \in DOMAIN storePlayers : \A key \in NonTieKeys :
              storePlayers[t][key] = cg.snapPlayers[t][key]
        /\ \A t \in DOMAIN storeDecks : \A key \in NonTieKeys :
              storeDecks[t][key] = cg.snapDecks[t][key]

\* a casual four-way tie between four stored players was created and applied
C9_Witness ==
    /\ CreateApplied /\ cg.hasDecks /\ cg.isCasual /\ AllTie(cg.slots)
    /\ Len(cg.slots) = SlotCount
    /\ \A n \in DOMAIN cg.slots :
          /\ SeatedPlayer(cg.slots[n]) # 0
          /\ storePlayers[SeatedPlayer(cg.slots[n])].ties
               = cg.snapPlayers[SeatedPlayer(cg.slots[n])].ties + 1

----------------------------------------------------------------------------
(* C10: deleting a stored competitive match created with one winning seat  *)
(* and losing other seats, every call succeeding, sets the winner's wins   *)
(* to max(0, wins - 1) and each loser's losses to max(0, losses - 1); the  *)
(* winner is resolved by the stored playerID, the losers by the stored     *)
(* opponent names.                                                         *)
C10_DeleteCompetitiveWin ==
    \A k \in DOMAIN del :
        ( /\ del[k].phase = "done" /\ del[k].hasPlayers
          /\ Len(del) = 1 /\ net = {} /\ failures = 0
          /\ cg.matchID = del[k].match.matchID
          /\ del[k].match.playerWin /\ ~isCasualFormat(del[k].match.format) )
        => \A n \in DOMAIN cg.slots :
              LET t == SeatedPlayer(cg.slots[n])
              IN  t # 0 =>
                    /\ cg.slots[n].result = S_win =>
                          storePlayers[t].wins = Max(0, del[k].snapPlayers[t].wins - 1)
                    /\ cg.slots[n].result = S_loss =>
                          storePlayers[t].losses = Max(0, del[k].snapPlayers[t].losses - 1)

----------------------------------------------------------------------------
(* C11: when one update call of a reconciliation pass fails, the pass is   *)
(* reported to its caller as failed (createGame: 'Match saved, but failed  *)
(* to update stats.', deleteMatch: 'Failed to delete match or roll back    *)
(* stats.'), the failing step leaves the store as the earlier updates of   *)
(* the pass made it, and a failed pass issues no further call (no          *)
(* compensation, no retry).                                                *)
PassCalls(tag, calls) == { c \in calls : c.pass = tag }

FailsNow(call) == failures' = failures + 1 /\ net' = net \ {call}

C11_StepFailsPass(call) ==
    IF call.pass[1] = "c"
    THEN (cg.phase = "updating" /\ cg.id = call.pass[2] /\ call.idx \in cg.pending)
            => /\ cg'.phase = "failed"
               /\ ~isSubmitting'
               /\ submitErrorMessage' = MsgStatsFailed
               /\ submitSuccessMessage' = "null"
    ELSE (del[call.pass[2]].phase = "updating" /\ call.idx \in del[call.pass[2]].pending)
            => /\ del'[call.pass[2]].phase = "failed"
               /\ deletingMatchKey' = Null
               /\ errorMessage' = MsgDeleteFailed

C11_NoFurtherCall ==
    /\ cg.phase = "failed" =>
          PassCalls(<< "c", cg.id >>, net') \subseteq PassCalls(<< "c", cg.id >>, net)
    /\ \A k \in DOMAIN del : del[k].phase = "failed" =>
          PassCalls(<< "d", k >>, net') \subseteq PassCalls(<< "d", k >>, net)

C11_PartialFailureReported ==
    [][ /\ \A call \in net :
              FailsNow(call) => (storeVars' = storeVars /\ C11_StepFailsPass(call))
        /\ C11_NoFurtherCall ]_vars

\* an apply pass was reported failed while one of its updates is in effect
C11_Witness ==
    /\ cg.phase = "failed" /\ cg.requests # << >>
    /\ submitErrorMessage = MsgStatsFailed
    /\ \E i \in CallsOf(cg) :
          /\ cg.requests[i].kind = "player"
          /\ storePlayers[cg.requests[i].target] = cg.requests[i].payload
          /\ Stat(cg.requests[i].payload) # Stat(cg.snapPlayers[cg.requests[i].target])

----------------------------------------------------------------------------
(* C12: a reconciliation pass issues all its update calls at once, none    *)
(* waiting for another to settle, and reports completion to its caller,    *)
(* success or failure, only when every update call it issued has settled.  *)
AllInFlightAtOnce(pass, tag) ==
    pass.phase = "updating" =>
        /\ pass.pending # {}
        /\ pass.pending \subseteq { c.idx : c \in PassCalls(tag, net) }

ReportedAfterAllSettled(pass, tag) ==
    (pass.phase \in {"done", "failed"} /\ pass.requests # << >>)
        => PassCalls(tag, net) = {}

C12_FanOutThenWaitForAll ==
    /\ AllInFlightAtOnce(cg, << "c", cg.id >>)
    /\ ReportedAfterAllSettled(cg, << "c", cg.id >>)
    /\ \A k \in DOMAIN del :
          /\ AllInFlightAtOnce(del[k], << "d", k >>)
          /\ ReportedAfterAllSettled(del[k], << "d", k >>)

----------------------------------------------------------------------------
(* C13: two overlapping reconciliation passes that touch the same player   *)
(* are not coordinated.  When both have read the same snapshot of the      *)
(* player and both have completed successfully, the stored counters of the *)
(* player are the payload of one of the two passes: the other pass's delta *)
(* is lost (last write wins).                                              *)
CallsTo(pass, t) ==
    { i \in CallsOf(pass) : pass.requests[i].kind = "player" /\ pass.requests[i].target = t }

BothDoneOnSameSnapshot(k, t) ==
    /\ cg.phase = "done" /\ del[k].phase = "done"
    /\ Len(del) = 1 /\ net = {} /\ failures = 0
    /\ CallsTo(cg, t) # {} /\ CallsTo(del[k], t) # {}
    /\ cg.snapPlayers[t] = del[k].snapPlayers[t]

----------------------------------------------------------------------------
(* C14: a reconciliation pass fetches no snapshot and issues no player or  *)
(* deck update before the match create call (apply) or the match delete    *)
(* call (rollback) has succeeded.  When that call fails, no update is ever *)
(* issued for the operation, an error message is shown, and after a failed *)
(* delete the match is still in the local match list.                      *)
NothingIssued(pass, tag) ==
    /\ ~pass.hasPlayers /\ ~pass.hasDecks
    /\ pass.requests = << >>
    /\ PassCalls(tag, net) = {}

MatchKeys(list) == { getMatchKeyString(list[i]) : i \in DOMAIN list }

C14_State ==
    /\ cg.phase = "creating" => NothingIssued(cg, << "c", cg.id >>)
    /\ (cg.phase = "failed" /\ cg.matchID = NoId) =>
          /\ NothingIssued(cg, << "c", cg.id >>)
          /\ submitErrorMessage = MsgSaveFailed /\ ~isSubmitting
    /\ \A k \in DOMAIN del :
          /\ del[k].phase = "deleting" => NothingIssued(del[k], << "d", k >>)
          /\ (del[k].phase = "failed" /\ ~del[k].removed) =>
                NothingIssued(del[k], << "d", k >>)

C14_Step ==
    /\ (cg'.phase = "fetching" /\ cg.phase # "fetching") =>
          /\ cg.phase = "creating"
          /\ Len(storeMatches') = Len(storeMatches) + 1
    /\ (cg.phase = "creating" /\ cg'.phase = "failed") =>
          /\ submitErrorMessage' = MsgSaveFailed
          /\ storeVars' = storeVars
    /\ \A k \in DOMAIN del :
          /\ (del'[k].phase = "fetching" /\ del[k].phase # "fetching") =>
                /\ del[k].phase = "deleting"
                /\ del[k].matchKey \notin MatchKeys(storeMatches')
          /\ (del[k].phase = "deleting" /\ del'[k].phase = "failed") =>
                /\ errorMessage' = MsgDeleteFailed
                /\ deletingMatchKey' = Null
                /\ storeVars' = storeVars
                /\ matches' = matches

C14_NothingBeforeTheRecordCall == []C14_State /\ [][C14_Step]_vars

\* the delete call failed: no snapshot, no update, message shown, match listed
C14_Witness ==
    \E k \in DOMAIN del :
        /\ del[k].phase = "failed" /\ ~del[k].removed
        /\ errorMessage = MsgDeleteFailed
        /\ del[k].matchKey \in MatchKeys(matches)

----------------------------------------------------------------------------
(* C15: a seat whose player identity cannot be resolved, or whose player   *)
(* or deck is absent from the fetched snapshot, produces no update call    *)
(* and no error: the pass issues exactly the updates of the seats that can *)
(* be matched, and reports success when those succeed.                     *)
PlayerCallIds(pass) ==
    { pass.requests[i].playerId : i \in { j \in CallsOf(pass) : pass.requests[j].kind = "player" } }

DeckCallNames(pass) ==
    { pass.requests[i].deckName : i \in { j \in CallsOf(pass) : pass.requests[j].kind = "deck" } }

SnapshotIds(snap) == { snap[t].playerId : t \in DOMAIN snap } \ {NoId}

SnapshotDeckKeys(snap) ==
    { toLowerCase(snap[t].deckName) : t \in { u \in DOMAIN snap : Truthy(snap[u].deckName) } }

\* the stored ids and deck names the slots of the form can be matched to
ApplyMatchedIds(pass) ==
    { pass.players[pass.slots[n].playerIndex + 1].playerId : n \in DOMAIN pass.slots }
        \cap SnapshotIds(pass.snapPlayers)

ApplyMatchedDecks(pass) ==
    { name \in { pass.decks[pass.slots[n].deckIndex + 1].deckName : n \in DOMAIN pass.slots } :
        Truthy(name) /\ toLowerCase(name) \in SnapshotDeckKeys(pass.snapDecks) }

\* the stored ids and deck names the seats of the deleted match can be matched to
RollbackMatchedIds(facts, snap) ==
    ({ facts[n].playerId : n \in { m \in DOMAIN facts : facts[m].counted } } \cap SnapshotIds(snap))
    \cup
    { snap[t].playerId : t \in { u \in DOMAIN snap :
        /\ snap[u].playerId # NoId
        /\ Truthy(snap[u].playerName)
        /\ \E n \in DOMAIN facts :
              /\ facts[n].counted /\ facts[n].playerId = NoId
              /\ facts[n].nameKey = toLowerCase(snap[u].playerName) } }

RollbackMatchedDecks(facts, snap) ==
    { facts[n].deckName : n \in { m \in DOMAIN facts :
        /\ facts[m].counted /\ Truthy(facts[m].deckName)
        /\ toLowerCase(facts[m].deckName) \in SnapshotDeckKeys(snap) } }

FailsOnlyOnStoreFailure ==
    failures = 0 =>
        /\ cg.phase # "failed" /\ submitErrorMessage = "null"
        /\ \A k \in DOMAIN del : del[k].phase # "failed"
        /\ errorMessage = "null"

SucceedsWhenCallsSucceed ==
    /\ cg.phase = "updating" => cg.pending # {}
    /\ cg.phase = "done" => submitSuccessMessage = MsgSaved /\ ~isSubmitting
    /\ \A k \in DOMAIN del :
          /\ del[k].phase = "updating" => del[k].pending # {}
          /\ del[k].phase = "done" => del[k].matchKey \notin MatchKeys(matches)

C15_UnmatchedSeatsSkipped ==
    /\ Issued(cg) =>
          /\ PlayerCallIds(cg) = ApplyMatchedIds(cg)
          /\ DeckCallNames(cg) = ApplyMatchedDecks(cg)
    /\ \A k \in DOMAIN del :
          Issued(del[k]) =>
              \E facts \in {SeatFacts(del[k].match)} :
                  /\ PlayerCallIds(del[k]) = RollbackMatchedIds(facts, del[k].snapPlayers)
                  /\ DeckCallNames(del[k]) = RollbackMatchedDecks(facts, del[k].snapDecks)
    /\ FailsOnlyOnStoreFailure
    /\ SucceedsWhenCallsSucceed

\* an apply pass succeeded although two of its four seats matched no stored
\* player and one of its decks matched no stored deck
C15_Witness ==
    /\ cg.phase = "done" /\ submitSuccessMessage = MsgSaved
    /\ Cardinality(PlayerCallIds(cg)) = 2
    /\ Cardinality({ cg.players[cg.slots[n].playerIndex + 1].playerId :
                        n \in DOMAIN cg.slots } \ SnapshotIds(cg.snapPlayers)) = 2
    /\ Cardinality(DeckCallNames(cg)) = 1
    /\ \A i \in CallsOf(cg) :
          cg.requests[i].kind = "player" =>
              storePlayers[cg.requests[i].target] = cg.requests[i].payload

----------------------------------------------------------------------------
(* C16: when no seat of the match produces a resolvable delta (no seats,   *)
(* or no seat whose result resolves), the pass issues no player or deck    *)
(* update call and reports success.                                        *)
NoSeatCounts(match) ==
    \A n \in DOMAIN getMatchSeats(match) :
        resolveSeatResult(getMatchSeats(match)[n], match) = Null

\* no slot of the form names a player with an id or a deck with a name
ApplySeatless(pass) ==
    \A n \in DOMAIN pass.slots :
        /\ pass.players[pass.slots[n].playerIndex + 1].playerId = NoId
        /\ ~Truthy(pass.decks[pass.slots[n].deckIndex + 1].deckName)

C16_NothingToReconcile ==
    /\ (cg.phase \in {"done", "failed"} /\ cg.matchID # NoId /\ ApplySeatless(cg)) =>
          /\ cg.requests = << >> /\ PassCalls(<< "c", cg.id >>, net) = {}
          /\ cg.phase = "done" /\ submitSuccessMessage = MsgSaved
    /\ \A k \in DOMAIN del :
          (del[k].removed /\ NoSeatCounts(del[k].match)) =>
              /\ CallsOf(del[k]) = {} /\ PassCalls(<< "d", k >>, net) = {}
              /\ del[k].phase = "failed" => failures > 0
              /\ (del[k].hasPlayers /\ del[k].hasDecks) => del[k].phase = "done"
              /\ getMatchSeats(del[k].match) = << >> => del[k].phase = "done"

\* a stored match whose seats resolve to no result was deleted: the
\* snapshots were fetched, no update was issued, the delete succeeded
C16_Witness ==
    \E k \in DOMAIN del :
        /\ del[k].phase = "done" /\ del[k].hasPlayers /\ del[k].hasDecks
        /\ getMatchSeats(del[k].match) # << >>
        /\ NoSeatCounts(del[k].match)
        /\ del[k].matchKey \notin MatchKeys(matches)

----------------------------------------------------------------------------
(* C17: provided every store call eventually settles, createGame ends with *)
(* isSubmitting false and exactly one of the success and error messages    *)
(* set, and deleteMatch ends with deletingMatchKey null and the match      *)
(* removed from the list or errorMessage set.                              *)
CreateEnded ==
    /\ ~isSubmitting
    /\ cg.phase \in {"done", "failed"}
    /\ (submitSuccessMessage # "null") # (submitErrorMessage # "null")

DeleteEnded(k) ==
    /\ k \in DOMAIN del
    /\ deletingMatchKey = Null
    /\ \/ del[k].phase = "done" /\ del[k].matchKey \notin MatchKeys(matches)
       \/ del[k].phase = "failed" /\ errorMessage = MsgDeleteFailed

C17_OperationsEnd ==
    /\ isSubmitting ~> CreateEnded
    /\ \A k \in 1..MaxDeletes :
          (k \in DOMAIN del /\ deletingMatchKey # Null) ~> DeleteEnded(k)

\* a delete that ended in failure after the store had removed the match
C17_Witness ==
    \E k \in DOMAIN del :
        /\ DeleteEnded(k) /\ del[k].phase = "failed" /\ del[k].removed
        /\ CreateEnded /\ cg.phase = "done"

----------------------------------------------------------------------------
(* C18: submitPlayer and submitDeck called with an empty or whitespace-only *)
(* name issue no store call, set the create error message, and leave the   *)
(* local player/deck list and the isCreating flag unchanged.               *)
Blank(name) == \A i \in DOMAIN name : name[i] = " "

C18_BlankNameRejected ==
    [][ /\ (submitPlayer /\ Blank(playersComponent.newPlayerName)) =>
              /\ playersComponent'.calls = playersComponent.calls
              /\ storePlayers' = storePlayers
              /\ playersComponent'.createPlayerErrorMessage = MsgPlayerNameRequired
              /\ playersComponent'.players = playersComponent.players
              /\ playersComponent'.isCreatingPlayer = playersComponent.isCreatingPlayer
        /\ (submitDeck /\ Blank(decksComponent.newDeckName)) =>
              /\ decksComponent'.calls = decksComponent.calls
              /\ storeDecks' = storeDecks
              /\ decksComponent'.createDeckErrorMessage = MsgDeckNameRequired
              /\ decksComponent'.decks = decksComponent.decks
              /\ decksComponent'.isCreatingDeck = decksComponent.isCreatingDeck ]_vars

\* a whitespace-only name was submitted while an earlier create call was
\* still in flight: the message is set, the flag and the call are as before
C18_Witness ==
    /\ playersComponent.newPlayerName = << " ", " " >>
    /\ playersComponent.createPlayerErrorMessage = MsgPlayerNameRequired
    /\ playersComponent.isCreatingPlayer
    /\ Len(playersComponent.calls) = 1
    /\ Len(playersComponent.players) = SlotCount + 1

----------------------------------------------------------------------------
(* C19: a seat rolled back by display name alone (no numeric id on the     *)
(* seat) produces the same update call, with the same target player id and *)
(* the same counters, as the same seat rolled back by that stored player's *)
(* numeric id, whenever exactly one stored player has that name up to      *)
(* letter case.                                                            *)
\* the player update calls rollbackStats issues for a match with these seats
RollbackPlayerCalls(match, seats, snapPlayers) ==
    LET maps == MH_deltaMaps(seats, match, Len(seats))
        requests == MH_playerRequests(maps.playerMap, snapPlayers)
                    \o MH_nameRequests(maps.nameMap, snapPlayers)
    IN  { [playerId |-> requests[i].playerId, payload |-> requests[i].payload] :
            i \in { j \in DOMAIN requests : requests[j].kind = "player" } }

\* the stored players whose name is the seat's name up to letter case
Namesakes(seat, snapPlayers) ==
    { t \in DOMAIN snapPlayers :
        /\ Truthy(snapPlayers[t].playerName)
        /\ toLowerCase(snapPlayers[t].playerName) = toLowerCase(getSeatPlayerName(seat)) }

C19_NameAndIdAgree ==
    \A k \in DOMAIN del :
        Issued(del[k]) =>
            \A n \in DOMAIN getMatchSeats(del[k].match) :
                \E seat \in { getMatchSeats(del[k].match)[n] } :
                    ( /\ getSeatPlayerId(seat) = NoId
                      /\ Truthy(getSeatPlayerName(seat))
                      /\ Cardinality(Namesakes(seat, del[k].snapPlayers)) = 1
                      /\ \A t \in Namesakes(seat, del[k].snapPlayers) :
                            del[k].snapPlayers[t].playerId # NoId )
                    => \A t \in Namesakes(seat, del[k].snapPlayers) :
                          RollbackPlayerCalls(del[k].match, << seat >>, del[k].snapPlayers)
                          = RollbackPlayerCalls(
                                del[k].match,
                                << [seat EXCEPT !.playerID = del[k].snapPlayers[t].playerId] >>,
                                del[k].snapPlayers)

----------------------------------------------------------------------------
(* C20: mergeDelta is commutative and associative: for all StatDelta a, b, *)
(* c, merge(a,b) = merge(b,a) and merge(merge(a,b),c) = merge(a,merge(b,c)). *)
C20_MergeCommutativeAssociative ==
    /\ CG_mergeDelta(calc.a, calc.b) = CG_mergeDelta(calc.b, calc.a)
    /\ CG_mergeDelta(CG_mergeDelta(calc.a, calc.b), calc.c)
       = CG_mergeDelta(calc.a, CG_mergeDelta(calc.b, calc.c))
    /\ MH_mergeDelta(calc.a, calc.b) = MH_mergeDelta(calc.b, calc.a)
    /\ MH_mergeDelta(MH_mergeDelta(calc.a, calc.b), calc.c)
       = MH_mergeDelta(calc.a, MH_mergeDelta(calc.b, calc.c))

\* three different operands, one of them accumulated over two seats
C20_Witness ==
    /\ calc.merges = MaxMerges
    /\ calc.a # calc.b /\ calc.b # calc.c /\ calc.a # calc.c
    /\ calc.c.losses = -2 /\ calc.b.casualLosses = -1
    /\ calc.a.wins = 1

----------------------------------------------------------------------------
(* C21: for every StatDelta a, mergeDelta(a, invertDelta(a)) is the zero   *)
(* delta: all five components are 0.                                       *)
C21_MergeWithInverseIsZero ==
    \A operand \in {calc.a, calc.b, calc.c} :
        /\ MH_mergeDelta(operand, invertDelta(operand)) = ZeroDelta
        /\ \A key \in StatKeys : MH_mergeDelta(operand, invertDelta(operand))[key] = 0

\* operands accumulated over two seats: a casual loss counted twice, and a
\* win merged with an inverted loss
C21_Witness ==
    /\ calc.merges = MaxMerges
    /\ calc.c.casualLosses = -2 /\ calc.c.losses = -2
    /\ calc.a.wins = 1 /\ calc.a.losses = -1

----------------------------------------------------------------------------
(* C22: for every result value and casual flag that buildDelta accepts, in *)
(* both components, the delta has exactly one of wins, losses, ties equal  *)
(* to 1 and the other two 0; casualWins is 1 iff the result is win and the *)
(* flag is casual, casualLosses is 1 iff the result is loss and the flag   *)
(* is casual, and both are 0 for tie.                                      *)
Indicator(condition) == IF condition THEN 1 ELSE 0

C22_BuildDeltaShape ==
    \A n \in DOMAIN calc.walk :
        \E seat \in { calc.walk[n] } :
            /\ Cardinality({ key \in {"wins", "losses", "ties"} : seat.delta[key] = 1 }) = 1
            /\ Cardinality({ key \in {"wins", "losses", "ties"} : seat.delta[key] = 0 }) = 2
            /\ seat.delta.wins = Indicator(seat.result = S_win)
            /\ seat.delta.losses = Indicator(seat.result = S_loss)
            /\ seat.delta.ties = Indicator(seat.result = S_tie)
            /\ seat.delta.casualWins = Indicator(seat.result = S_win /\ seat.isCasual)
            /\ seat.delta.casualLosses = Indicator(seat.result = S_loss /\ seat.isCasual)
            /\ seat.result = S_tie => seat.delta.casualWins = 0 /\ seat.delta.casualLosses = 0

----------------------------------------------------------------------------
(* C23: resolveSeatResult gives an explicit result-like string on the seat *)
(* precedence over every boolean flag and every match-level field: the     *)
(* string is matched case-insensitively by substring, tie before win       *)
(* before loss; 'WIN' with playerWin false resolves to win, a string       *)
(* containing both 'tie' and 'win' resolves to tie.                        *)
Mentions(text, word) == includes(toLowerCase(text), word)

ResultLike(text) ==
    /\ NonBlankString(text)
    /\ Mentions(text, S_tie) \/ Mentions(text, S_win) \/ Mentions(text, S_loss)

ExplicitResult(text) ==
    IF Mentions(text, S_tie) THEN S_tie
    ELSE IF Mentions(text, S_win) THEN S_win
    ELSE S_loss

C23_ExplicitResultFirst ==
    (calc.done /\ ResultLike(calc.seat.result)) =>
        /\ calc.resolved = ExplicitResult(calc.seat.result)
        /\ calc.seat.result = S_WIN => calc.resolved = S_win
        /\ calc.seat.result = S_WinTie => calc.resolved = S_tie

\* 'WIN' on the seat against playerWin false, a tie flag and a tied match
C23_Witness ==
    /\ calc.done /\ calc.resolved = S_win
    /\ calc.seat.result = S_WIN
    /\ calc.seat.playerWin = "false" /\ calc.seat.tie = "true"
    /\ calc.match.result = S_Tie /\ calc.match.playerID = calc.seat.playerID

----------------------------------------------------------------------------
(* C24: when the seat has no explicit result string, resolveSeatResult     *)
(* applies the remaining rules in this order and returns the first that    *)
(* applies: seat tie flag true gives tie; seat win flag present gives win  *)
(* if true and loss if false; match-level result tie gives tie; seat id    *)
(* equal to the match's playerID gives the match's playerWin as win/loss;  *)
(* seat name equal to the winner name (case-insensitive, trimmed) gives    *)
(* win; match-level result win gives loss.                                 *)
MatchResultIs(match, word) ==
    ResultLike(match.result) /\ ExplicitResult(match.result) = word

SameName(a, b) ==
    /\ NonBlankString(a) /\ NonBlankString(b)
    /\ toLowerCase(trim(a)) = toLowerCase(trim(b))

FallbackChain(seat, match) ==
    IF seat.tie = "true" THEN S_tie
    ELSE IF seat.playerWin = "true" THEN S_win
    ELSE IF seat.playerWin = "false" THEN S_loss
    ELSE IF MatchResultIs(match, S_tie) THEN S_tie
    ELSE IF seat.playerID # NoId /\ seat.playerID = match.playerID
         THEN (IF match.playerWin THEN S_win ELSE S_loss)
    ELSE IF SameName(seat.playerName, match.winnerName) THEN S_win
    ELSE IF MatchResultIs(match, S_win) THEN S_loss
    ELSE Null

NamedChain(seat, match) ==
    IF seat.tie = "true" THEN S_tie
    ELSE IF seat.playerWin = "true" THEN S_win
    ELSE IF seat.playerWin = "false" THEN S_loss
    ELSE IF MatchResultIs(match, S_tie) THEN S_tie
    ELSE IF seat.playerID # NoId /\ seat.playerID = match.playerID
         THEN (IF match.playerWin THEN S_win ELSE S_loss)
    ELSE IF ~(NonBlankString(seat.playerName) /\ Truthy(match.winnerName)) THEN Null
    ELSE IF SameName(seat.playerName, match.winnerName) THEN S_win
    ELSE IF MatchResultIs(match, S_win) THEN S_loss
    ELSE Null

----------------------------------------------------------------------------
(* C25: a seat for which resolveSeatResult finds no result is left out of  *)
(* the rollback entirely: the player, name and deck delta maps hold        *)
(* entries only for the seats that have a result, each entry the negated   *)
(* sum of the deltas of those seats, and the pass fails only if a store    *)
(* call failed.                                                            *)
MapKeys(m) == { m[i].key : i \in DOMAIN m }

CountedSeats(facts) == { n \in DOMAIN facts : facts[n].counted }

MapsComputed(pass) == pass.hasPlayers /\ pass.hasDecks

MapsOfCountedSeats(pass) ==
    \E facts \in {SeatFacts(pass.match)} :
        /\ MapKeys(pass.playerMap) =
              { facts[n].playerId : n \in CountedSeats(facts) } \ {NoId}
        /\ MapKeys(pass.nameMap) =
              { facts[n].nameKey :
                  n \in { m \in CountedSeats(facts) : facts[m].playerId = NoId } } \ {Undefined}
        /\ MapKeys(pass.deckMap) =
              { facts[n].deckName :
                  n \in { m \in CountedSeats(facts) : Truthy(facts[m].deckName) } }
        /\ \A i \in DOMAIN pass.playerMap :
              pass.playerMap[i].value =
                  RollbackDelta(facts, [via |-> "id", playerId |-> pass.playerMap[i].key])
        /\ \A i \in DOMAIN pass.nameMap :
              pass.nameMap[i].value =
                  RollbackDelta(facts, [via |-> "name", key |-> pass.nameMap[i].key])
        /\ \A i \in DOMAIN pass.deckMap :
              pass.deckMap[i].value =
                  RollbackDelta(facts, [via |-> "deck", deckName |-> pass.deckMap[i].key])

C25_UnresolvedSeatExcluded ==
    \A k \in DOMAIN del :
        /\ MapsComputed(del[k]) => MapsOfCountedSeats(del[k])
        /\ (del[k].phase = "failed" \/ errorMessage # "null") => failures > 0

\* a match with one seat without result (Ann) and one with (Bob) was rolled
\* back: the only entry is Bob's, Ann's row is as it was, the pass is done
C25_Witness ==
    \E k \in DOMAIN del :
        /\ del[k].phase = "done" /\ MapsComputed(del[k])
        /\ \E facts \in {SeatFacts(del[k].match)} :
              /\ \E n \in DOMAIN facts : ~facts[n].counted /\ facts[n].nameKey = ann
              /\ \E n \in DOMAIN facts : facts[n].counted /\ facts[n].nameKey = toLowerCase(Bob)
        /\ MapKeys(del[k].nameMap) = {toLowerCase(Bob)}
        /\ storePlayers[1] = del[k].snapPlayers[1]
        /\ storePlayers[2] # del[k].snapPlayers[2]
        /\ errorMessage = "null"

----------------------------------------------------------------------------
(* C26: a match is casual exactly when its format contains 'casual' in any *)
(* letter case; an unset or empty format is competitive; and the           *)
(* classification createGame applies its deltas with equals the one        *)
(* recomputed from the stored match's format when the match is deleted.    *)
S_CasualEDH == << "C","a","s","u","a","l","-","E","D","H" >>

S_semiCASUAL == << "s","e","m","i","C","A","S","U","A","L" >>

CasualBySubstring ==
    /\ isCasualFormat(S_CASUAL) /\ isCasualFormat(S_casual)
    /\ isCasualFormat(S_CasualEDH) /\ isCasualFormat(S_semiCASUAL)
    /\ ~isCasualFormat(S_CEDH) /\ ~isCasualFormat(S_Unknown)
    /\ ~isCasualFormat(EmptyString) /\ ~isCasualFormat(Undefined)

C26_SameClassOnCreateAndDelete ==
    /\ CasualBySubstring
    /\ cg.matchID # NoId =>
          \A i \in DOMAIN storeMatches :
              storeMatches[i].matchID = cg.matchID =>
                  cg.isCasual = isCasualFormat(storeMatches[i].format)

----------------------------------------------------------------------------
(* C27: a player record resolves to the same numeric identity whether its  *)
(* id is a number or the numeric-looking string of that number, under      *)
(* every recognised spelling of the id field (playerID, playerId, id):     *)
(* {playerID: "7"} and {playerId: 7} both resolve to 7, and findPlayerById *)
(* for id 7 matches either.                                                *)
MaxPlayerId == 10

\* the record's id field: the first recognised spelling that is set
IdField(record) ==
    IF record.playerID.t \in {"number", "string"} THEN record.playerID
    ELSE IF record.playerId.t \in {"number", "string"} THEN record.playerId
    ELSE record.id

Denotes(value, n) ==
    \/ value.t = "number" /\ value.v = n
    \/ value.t = "string" /\ value.s = NumberToString(n)

C27_SameIdentityForStringAndNumber ==
    calc.done =>
        /\ \A i \in DOMAIN calc.players : \A n \in 0..MaxPlayerId :
              Denotes(IdField(calc.players[i]), n) => calc.ids[i] = n
        /\ (\E i \in DOMAIN calc.players : Denotes(IdField(calc.players[i]), calc.playerId))
              => /\ calc.found # 0
                 /\ \A j \in 1..(calc.found - 1) :
                       ~Denotes(IdField(calc.players[j]), calc.playerId)

\* {playerID: "7"} before {playerId: 7}, looked up by 7: both ids are 7 and
\* the first record is the one found
C27_Witness ==
    /\ calc.done /\ calc.playerId = 7
    /\ calc.players[1].playerID = StringValue(S_7)
    /\ calc.players[2].playerId = NumberValue(7) /\ calc.players[2].playerID = AbsentValue
    /\ calc.ids = << 7, 7 >>
    /\ calc.found = 1

----------------------------------------------------------------------------
(* C28: buildFavoriteDeckMaps returns in byName, under the trimmed         *)
(* lower-cased player name, the name of the player's most used deck as it  *)
(* is recorded in the matches: for three matches in which player A used    *)
(* 'Mono Red', 'Mono Red' and 'Izzet', byName.get('a') is 'Mono Red'.      *)

\* the (player name, deck name) pairs of a match that buildFavoriteDeckMaps
\* counts by name, as they are recorded
NamePairs(match) ==
    (IF match.playerID = NoId \/ match.playerID = 0
     THEN << [name |-> match.winnerName, deck |-> match.deckName] >> ELSE << >>)
    \o << [name |-> match.opponentOne, deck |-> match.opponentOneDeck],
          [name |-> match.opponentTwo, deck |-> match.opponentTwoDeck],
          [name |-> match.opponentThree, deck |-> match.opponentThreeDeck] >>

RECURSIVE HistoryNamePairs(_)
HistoryNamePairs(history) ==
    IF history = << >> THEN << >>
    ELSE HistoryNamePairs(SubSeq(history, 1, Len(history) - 1))
            \o NamePairs(history[Len(history)])

PairsOf(pairs, nameKey) ==
    { i \in DOMAIN pairs :
        /\ Truthy(pairs[i].name) /\ Truthy(pairs[i].deck)
        /\ toLowerCase(trim(pairs[i].name)) = nameKey }

ExampleHistory ==
    << LegacyMatch(1, Rona, Ann, S_A, MonoRed, Undefined, Undefined),
       LegacyMatch(1, Rona, Ann, S_A, MonoRed, Undefined, Undefined),
       LegacyMatch(1, Kess, Bob, S_A, Izzet, Undefined, Undefined) >>

----------------------------------------------------------------------------
(* C29: for every identity in the favorite-deck result, of                 *)
(* CreateGameComponent (byId, byName) and of PlayersComponent, the chosen  *)
(* deck is used at least as often as every other deck counted for that     *)
(* identity; among decks with the highest count the chosen one is the one  *)
(* counted first in match order; a deck with an empty or blank name is     *)
(* never counted and never chosen.                                         *)

\* the uses the history records, in match order: who used which deck; an
\* empty who or deck marks a use that does not count
KeyOrNone(value, key) == IF Truthy(value) THEN key ELSE << >>

RECURSIVE CG_IdUses(_)
CG_IdUses(history) ==
    IF history = << >> THEN << >>
    ELSE LET match == history[Len(history)]
         IN  Append(CG_IdUses(SubSeq(history, 1, Len(history) - 1)),
                    [who |-> match.playerID,
                     deck |-> KeyOrNone(match.deckName, normalizeDeckKey(match.deckName))])

CG_NameUses(history) ==
    LET pairs == HistoryNamePairs(history)
    IN  [i \in DOMAIN pairs |->
            [who |-> KeyOrNone(pairs[i].name, toLowerCase(trim(pairs[i].name))),
             deck |-> KeyOrNone(pairs[i].deck, normalizeDeckKey(pairs[i].deck))]]

RECURSIVE PC_Uses(_)
PC_Uses(history) ==
    IF history = << >> THEN << >>
    ELSE LET match == history[Len(history)]
             use(who, deck) == [who |-> who, deck |-> KeyOrNone(deck, trim(deck))]
         IN  PC_Uses(SubSeq(history, 1, Len(history) - 1)) \o
             << use(IF match.playerID # NoId THEN PC_idKey(match.playerID) ELSE << >>,
                    match.deckName),
                use(KeyOrNone(match.opponentOne, PC_nameKey(match.opponentOne)),
                    match.opponentOneDeck),
                use(KeyOrNone(match.opponentTwo, PC_nameKey(match.opponentTwo)),
                    match.opponentTwoDeck),
                use(KeyOrNone(match.opponentThree, PC_nameKey(match.opponentThree)),
                    match.opponentThreeDeck) >>

UsesOf(uses, who, deck) == { i \in DOMAIN uses : uses[i].who = who /\ uses[i].deck = deck }

FirstUse(uses, who, deck) ==
    CHOOSE i \in UsesOf(uses, who, deck) : \A j \in UsesOf(uses, who, deck) : i <= j

MostUsedFirstCounted(favorites, uses, none) ==
    /\ \A e \in DOMAIN favorites :
          \E who \in {favorites[e].key}, chosen \in {favorites[e].value} :
              /\ trim(chosen) # << >>
              /\ UsesOf(uses, who, chosen) # {}
              /\ \A i \in DOMAIN uses :
                    (uses[i].who = who /\ uses[i].deck # << >> /\ uses[i].deck # chosen) =>
                        \/ Cardinality(UsesOf(uses, who, chosen))
                              > Cardinality(UsesOf(uses, who, uses[i].deck))
                        \/ /\ Cardinality(UsesOf(uses, who, chosen))
                                = Cardinality(UsesOf(uses, who, uses[i].deck))
                           /\ FirstUse(uses, who, chosen) < FirstUse(uses, who, uses[i].deck)
    /\ \A i \in DOMAIN uses :
          (uses[i].who # none /\ uses[i].deck # << >>) => MapHas(favorites, uses[i].who)
    /\ \A e \in DOMAIN favorites :
          \E i \in DOMAIN uses : uses[i].who = favorites[e].key /\ uses[i].deck # << >>

C29_MostUsedFirstCounted ==
    /\ MostUsedFirstCounted(calc.maps.byId, CG_IdUses(calc.history), NoId)
    /\ MostUsedFirstCounted(calc.maps.byName, CG_NameUses(calc.history), << >>)
    /\ MostUsedFirstCounted(calc.favorites, PC_Uses(calc.history), << >>)

\* A used Izzet, Mono Red, mono-red and (as ' a ') Izzet; Bob used a blank
\* deck and '!!'.  CreateGameComponent: the keys izzet and monored are level,
\* monored reached two first, izzet was counted first and is chosen; Bob has
\* no counted deck.  PlayersComponent: 'A' used three names once each and the
\* first is chosen; Bob's blank deck is not counted
C29_Witness ==
    /\ calc.history =
          << LegacyMatch(1, Kess, Bob, S_A, Izzet, Undefined, Undefined),
             LegacyMatch(1, Rona, Ann, S_A, MonoRed, Undefined, Undefined),
             LegacyMatch(NoId, Kess, Ann, S_A, S_monoDashRed, Bob, S_Blank),
             LegacyMatch(1, Undefined, Undefined, S_aPadded, Izzet, Bob, S_Punct) >>
    /\ MapGet(calc.maps.byName, S_a) = toLowerCase(Izzet)
    /\ ~MapHas(calc.maps.byName, toLowerCase(Bob))
    /\ MapGet(calc.favorites, PC_nameKey(S_A)) = Izzet
    /\ MapGet(calc.favorites, PC_nameKey(Bob)) = S_Punct
    /\ MapGet(calc.maps.byId, 1) = toLowerCase(Kess)

----------------------------------------------------------------------------
(* C30: a pass issues update calls only for players and decks a seat of    *)
(* its match refers to; each payload has the canonical shape (player:      *)
(* playerId, playerName and the five counters; deck: deckName, playerID    *)
(* and the five counters), carries the stored record's name and owner      *)
(* unchanged, and writes every counter whose accumulated delta component   *)
(* is 0 equal to the value read from the snapshot.                         *)
CanonicalShape(req) ==
    DOMAIN req.payload =
        (IF req.kind = "player" THEN {"playerId", "playerName"} ELSE {"deckName", "playerID"})
            \cup StatKeys

IdentityKept(req, snap) ==
    IF req.kind = "player"
    THEN req.payload.playerId = snap.playerId /\ req.payload.playerName = snap.playerName
    ELSE req.payload.deckName = snap.deckName /\ req.payload.playerID = snap.playerID

UntouchedCountersKept(req, snap) ==
    \A key \in StatKeys : req.delta[key] = 0 => req.payload[key] = snap[key]

PayloadsFramed(pass) ==
    \A i \in CallsOf(pass) :
        /\ CanonicalShape(pass.requests[i])
        /\ IdentityKept(pass.requests[i], SnapOf(pass, pass.requests[i]))
        /\ UntouchedCountersKept(pass.requests[i], SnapOf(pass, pass.requests[i]))

C30_UpdateTouchesOnlyItsDelta ==
    /\ Issued(cg) =>
          /\ PlayerCallIds(cg) \subseteq ApplyMatchedIds(cg)
          /\ DeckCallNames(cg) \subseteq ApplyMatchedDecks(cg)
          /\ PayloadsFramed(cg)
    /\ \A k \in DOMAIN del :
          Issued(del[k]) =>
              \E facts \in {SeatFacts(del[k].match)} :
                  /\ PlayerCallIds(del[k]) \subseteq RollbackMatchedIds(facts, del[k].snapPlayers)
                  /\ DeckCallNames(del[k]) \subseteq RollbackMatchedDecks(facts, del[k].snapDecks)
                  /\ PayloadsFramed(del[k])

----------------------------------------------------------------------------
(* C31: in rollback, seats that carry no numeric id are keyed by           *)
(* lower-cased player name: all such seats whose names are equal up to     *)
(* letter case are merged into one delta, and that delta is applied to the *)
(* first stored player in the snapshot whose name equals it                *)
(* case-insensitively, so two different stored players sharing a display   *)
(* name are treated as one.                                                *)
\* the seats with a result that are known by this lower-cased name only
NameSeats(facts, key) ==
    { n \in CountedSeats(facts) : facts[n].playerId = NoId /\ facts[n].nameKey = key }

\* position of the first snapshot row with this name up to letter case, or 0
FirstNamesake(snapPlayers, key) ==
    LET rows == { t \in DOMAIN snapPlayers :
                    /\ Truthy(snapPlayers[t].playerName)
                    /\ toLowerCase(snapPlayers[t].playerName) = key }
    IN  IF rows = {} THEN 0 ELSE CHOOSE t \in rows : \A u \in rows : t <= u

NameEntryOntoFirst(pass, facts, i) ==
    LET key == pass.nameMap[i].key
        req == pass.requests[Len(pass.playerMap) + i]
        first == FirstNamesake(pass.snapPlayers, key)
    IN  /\ NameSeats(facts, key) # {}
        /\ pass.nameMap[i].value = RollbackDelta(facts, [via |-> "name", key |-> key])
        /\ IF first = 0 THEN req.kind = "none"
           ELSE IF pass.snapPlayers[first].playerId = NoId THEN req.kind = "none"
           ELSE /\ req.kind = "player"
                /\ req.target = first
                /\ req.playerId = pass.snapPlayers[first].playerId
                /\ ClampedFrom(req.payload, pass.snapPlayers[first], pass.nameMap[i].value)

C31_NamesakesMergedOntoFirst ==
    \A k \in DOMAIN del :
        MapsComputed(del[k]) =>
            \E facts \in {SeatFacts(del[k].match)} :
                /\ \A n \in CountedSeats(facts) :
                      (facts[n].playerId = NoId /\ facts[n].nameKey # Undefined)
                      => Cardinality({ i \in DOMAIN del[k].nameMap :
                                         del[k].nameMap[i].key = facts[n].nameKey }) = 1
                /\ \A i \in DOMAIN del[k].nameMap : NameEntryOntoFirst(del[k], facts, i)

\* the match with seats 'Ann' (win) and 'ann' (casual loss) was rolled back in
\* the store that holds Ann (id 1) and ann (id 2): one entry for both seats,
\* one call, to player 1, who lost a win and a loss; player 2 is as she was
C31_Witness ==
    \E k \in DOMAIN del :
        /\ del[k].phase = "done" /\ MapsComputed(del[k])
        /\ \E facts \in {SeatFacts(del[k].match)} :
              Cardinality(NameSeats(facts, ann)) = 2
        /\ Cardinality({ t \in DOMAIN del[k].snapPlayers :
                           del[k].snapPlayers[t].playerId # NoId
                           /\ toLowerCase(del[k].snapPlayers[t].playerName) = ann }) = 2
        /\ storePlayers[1].wins = del[k].snapPlayers[1].wins - 1
        /\ storePlayers[1].losses = del[k].snapPlayers[1].losses - 1
        /\ storePlayers[2] = del[k].snapPlayers[2]
        /\ errorMessage = "null"

----------------------------------------------------------------------------
(* C32: for a match record without a seats array, getMatchSeats            *)
(* synthesizes a seat list equivalent to the flat shape: one primary seat  *)
(* when playerID, deckName or winnerName is present, followed by one seat  *)
(* per non-empty opponent field in order (at most four seats), each        *)
(* carrying the seat's player, deck and the outcome the match recorded for *)
(* that participant; a record with a seats array is returned unchanged.    *)
\* the opponent fields of the flat shape, in order, and those that are set
OpponentFields(match) ==
    << [name |-> match.opponentOne, deck |-> match.opponentOneDeck],
       [name |-> match.opponentTwo, deck |-> match.opponentTwoDeck],
       [name |-> match.opponentThree, deck |-> match.opponentThreeDeck] >>

NamedOpponents(match) ==
    SelectSeq(OpponentFields(match), LAMBDA field : field.name \notin {Undefined, Null, << >>})

HasPrimary(match) ==
    \/ match.playerID \notin {NoId, 0}
    \/ match.deckName \notin {Undefined, Null, << >>}
    \/ match.winnerName \notin {Undefined, Null, << >>}

\* what the flat record says of its primary participant and of an opponent
PrimaryOutcome(match) ==
    IF ResultLike(match.result) THEN ExplicitResult(match.result)
    ELSE IF match.playerWin THEN S_win ELSE S_loss

OpponentOutcome(match, name) ==
    IF MatchResultIs(match, S_tie) THEN S_tie
    ELSE IF SameName(name, match.winnerName) THEN S_win
    ELSE IF ResultLike(match.result) THEN S_loss
    ELSE Null

SeatsOfFlatShape(match, seats) ==
    LET opponents == NamedOpponents(match)
        offset == IF HasPrimary(match) THEN 1 ELSE 0
    IN  /\ Len(seats) = offset + Len(opponents)
        /\ Len(seats) <= 4
        /\ HasPrimary(match) =>
              /\ seats[1].playerID = match.playerID
              /\ seats[1].playerName = match.winnerName
              /\ seats[1].deckName = match.deckName
              /\ seats[1].result = PrimaryOutcome(match)
              /\ seats[1].format = match.format
        /\ \A j \in DOMAIN opponents :
              /\ seats[offset + j].playerID = NoId
              /\ seats[offset + j].playerName = opponents[j].name
              /\ seats[offset + j].deckName = opponents[j].deck
              /\ seats[offset + j].result = OpponentOutcome(match, opponents[j].name)
              /\ seats[offset + j].format = match.format

C32_SeatsOfFlatRecord ==
    calc.done =>
        IF calc.match.seats # NoSeats THEN calc.seats = calc.match.seats
        ELSE SeatsOfFlatShape(calc.match, calc.seats)

\* the record of player 1 who lost to ' aNN ', with opponents ann and Cy and an
\* empty second opponent: three seats, loss for the primary, win for ann, loss
\* for Cy
C32_Witness ==
    /\ calc.done /\ calc.match.seats = NoSeats
    /\ calc.match.playerID = 1 /\ calc.match.result = S_LOSS
    /\ calc.match.winnerName = S_AnnPadded /\ calc.match.opponentTwo = EmptyString
    /\ Len(calc.seats) = 3
    /\ calc.seats[1].result = S_loss /\ calc.seats[1].playerID = 1
    /\ calc.seats[2].playerName = ann /\ calc.seats[2].result = S_win
    /\ calc.seats[3].playerName = Cy /\ calc.seats[3].result = S_loss

----------------------------------------------------------------------------
(* C33: across any sequence of user delete clicks and any outcomes of the  *)
(* store calls, the rollback deltas of one match are applied to the stored *)
(* counters of a given player or deck at most once: a delete whose         *)
(* rollback failed part-way cannot lead, on a later delete of the same     *)
(* still-listed match, to a second decrement of an entity that was already *)
(* rolled back.                                                            *)
\* the stored row an update request is addressed to
StoreRow(req) ==
    IF req.kind = "player" THEN storePlayers[StoreTarget(req)] ELSE storeDecks[StoreTarget(req)]

SameEntity(a, b) ==
    /\ a.kind = b.kind
    /\ IF a.kind = "player" THEN a.playerId = b.playerId ELSE a.target = b.target

\* the later pass read the row as the earlier pass wrote it, and the store
\* holds the row as the later pass wrote it: the entity was decremented twice
RolledBackTwice(earlier, later, a, b) ==
    /\ SameEntity(a, b)
    /\ a.payload # SnapOf(earlier, a)
    /\ SnapOf(later, b) = a.payload
    /\ b.payload # SnapOf(later, b)
    /\ StoreTarget(b) # 0
    /\ StoreRow(b) = b.payload

C33_RolledBackAtMostOnce ==
    \A k1, k2 \in DOMAIN del :
        (k1 < k2 /\ del[k1].matchKey = del[k2].matchKey) =>
            \A i1 \in CallsOf(del[k1]), i2 \in CallsOf(del[k2]) :
                ~RolledBackTwice(del[k1], del[k2], del[k1].requests[i1], del[k2].requests[i2])
----------------------------------------------------------------------------
(* The result vector of the form *)

ResultVector == [i \in DOMAIN slots |-> slots[i].result]

WinSlots == { i \in DOMAIN slots : slots[i].result = S_win }

FormAllTie == \A i \in DOMAIN slots : slots[i].result = S_tie

OneWinRestLoss ==
    /\ Cardinality(WinSlots) = 1
    /\ \A i \in DOMAIN slots \ WinSlots : slots[i].result = S_loss

\* C34: every match the form submits has a result vector that is all 'tie'
\* or one 'win' with three 'loss': a step in which createGame starts a create
\* starts from such a form
C34_SubmittedVectorCanonical ==
    [][(cg'.phase = "creating" /\ cg.phase # "creating") => (FormAllTie \/ OneWinRestLoss)]_vars

\* C35: whatever updateResult, updatePlayer and updateDeck calls were made,
\* at most one slot holds 'win' and no slot holds 'tie' while one holds 'win'
C35_OneWinnerNoTieBeside ==
    /\ Cardinality(WinSlots) <= 1
    /\ WinSlots # {} => \A i \in DOMAIN slots : slots[i].result # S_tie

\* the second slot was made the winner of a form filled in from the empty slots
C35_Witness ==
    /\ slots[1].result = S_loss
    /\ slots[2].result = S_win
    /\ slots[3].result = << >>
    /\ slots[2].playerIndex = 0
    /\ slots[1].deckIndex = 0

----------------------------------------------------------------------------
(* C37: the submit guard *)

\* a create call or an apply pass of the form is outstanding
CreateInFlight == cg.phase \in {"creating", "fetching", "updating"}

----------------------------------------------------------------------------
(* C38: the marker of the match being deleted *)

\* a delete call or the rollback after it is outstanding
DeleteInFlight == \E k \in DOMAIN del : del[k].phase \notin {"done", "failed"}

\* C38: deletingMatchKey is non-null exactly while a delete-and-rollback is
\* in flight, however deleteMatch calls on different matches and the store's
\* answers interleave
C38_KeySetWhileDeleting == (deletingMatchKey # Null) <=> DeleteInFlight

----------------------------------------------------------------------------
(* C36: the casual counters stay within the totals *)

CasualWithinTotals(rec) ==
    /\ rec.casualWins <= rec.wins
    /\ rec.casualLosses <= rec.losses

\* C36: from a store in which casualWins <= wins and casualLosses <= losses
\* hold for every player and deck, they hold for every stored player and deck
\* after any sequence of match creations and deletions in which no store
\* call failed
C36_CasualWithinTotals ==
    failures = 0 =>
        /\ \A i \in DOMAIN storePlayers : CasualWithinTotals(storePlayers[i])
        /\ \A i \in DOMAIN storeDecks : CasualWithinTotals(storeDecks[i])

----------------------------------------------------------------------------
(* C39: the suggestion and the explicit choice *)

\* a load of the form has completed in this step: the loadMatches call of
\* ngOnInit, or loadPlayers and loadDecks of createGame's success callback
LoadCompleted ==
    \/ calc.matchesLoading /\ ~calc'.matchesLoading
    \/ cg.phase # "done" /\ cg'.phase = "done"

\* C39: once the user has set a slot's deck with updateDeck after choosing
\* the slot's player, no completion of loadPlayers, loadDecks or loadMatches
\* changes that slot's deckIndex
C39_ExplicitDeckKept ==
    [][LoadCompleted =>
          \A slotIndex \in calc.explicit :
              slots'[slotIndex].deckIndex = slots[slotIndex].deckIndex]_vars

====
